---- MODULE Spec2Model ----
(***************************************************************************)
(* MQTT+ peer-side protocol engine (rse/mqtt-plus), modelled as a state    *)
(* machine: peers attached to MQTT clients, a broker that routes publishes *)
(* to the clients subscribed to the topic, the service-call correlation    *)
(* tables and the chunked resource transfers.                              *)
(*                                                                         *)
(* Every operation of a peer is a function from a "world" record w to a    *)
(* world record: the calls it makes on its MQTT client are appended, in    *)
(* program order, to w.ops and are applied to the broker when the action   *)
(* commits.  One action is one run-to-completion turn of the event loop.   *)
(***************************************************************************)
EXTENDS Integers, Sequences, FiniteSets, TLC

VARIABLES
    peers,       \* per peer: the private tables of the trait classes
    calls,       \* per call(): the closure of the promise (timer, settle state)
    fetches,     \* per fetch(): its closure (timer, firstChunk, stream, meta)
    transfers,   \* per sending side of a transfer: the source and the chunks sent
    streams,     \* the Readables handed to provisioner handlers on a push
    pushed,      \* the invocations of provisioner handlers on a push, in order
    armed,       \* the push-stream timers that are set and not cleared
    jobs,      \* handler promise chains that have not settled yet
    handles,     \* the handles subscribe/register/provision returned
    brokerSubs,  \* per MQTT client: the topics the broker holds a subscription for
    inbox,       \* per MQTT client: the messages routed to it, in order
    errors,      \* per MQTT client: the errors emitted on its "error" channel
    nextId,      \* the next fresh correlation id (nanoid() never repeats)
    step         \* the last turn taken and the MQTT client calls it issued

vars == <<peers, calls, fetches, transfers, streams, pushed, armed, jobs,
          handles, brokerSubs, inbox, errors, nextId, step>>

----------------------------------------------------------------------------
(* Bounds of the model *)

MaxOps == 2
MaxPushes == 1
MaxRequests == 1
MaxHandles == 2
MaxLen == 3
ChunkSize == 2

----------------------------------------------------------------------------
(* Optional values: undefined is the empty sequence *)

None == <<>>
Some(v) == <<v>>
IsSome(o) == o /= <<>>
Get(o) == o[1]

(* Map helpers (JavaScript Map) *)
MapHas(m, k) == k \in DOMAIN m
MapSet(m, k, v) == [x \in (DOMAIN m) \cup {k} |-> IF x = k THEN v ELSE m[x]]
MapDel(m, k) == [x \in (DOMAIN m) \ {k} |-> m[x]]
EmptyMap == <<>>

----------------------------------------------------------------------------
(* The universe *)

Peers == {"A", "B", "C"}
Clients == {"m1", "m2"}

(* the listeners of a client run in the order the peers were constructed *)
PeerOrder == <<"A", "B", "C">>


----------------------------------------------------------------------------
(* Topic naming: `${name}/${operation}/${peerId ?? "any"}` and its inverse. *)
(* A topic is kept as its segments; the last one is a peer id or "any".    *)

topicMake(name, operation, peerId) ==
    [name |-> name, op |-> operation,
     seg  |-> IF IsSome(peerId) THEN Get(peerId) ELSE "any"]

topicMatch(topic) ==
    [name |-> topic.name, operation |-> topic.op,
     peerId |-> IF topic.seg = "any" THEN None ELSE Some(topic.seg)]

----------------------------------------------------------------------------
(* Envelopes *)

Envelope(type, id, sender, receiver) ==
    [type |-> type, id |-> id, sender |-> sender, receiver |-> receiver,
     name |-> None, params |-> None, result |-> None, error |-> None,
     chunk |-> None, meta |-> None, final |-> None]

makeEventEmission(id, event, params, sender, receiver) ==
    [Envelope("event-emission", id, sender, receiver)
        EXCEPT !.name = Some(event), !.params = params]

makeServiceCallRequest(id, service, params, sender, receiver) ==
    [Envelope("service-call-request", id, sender, receiver)
        EXCEPT !.name = Some(service), !.params = params]

makeServiceCallResponse(id, result, error, sender, receiver) ==
    [Envelope("service-call-response", id, sender, receiver)
        EXCEPT !.result = result, !.error = error]

makeResourceTransferRequest(id, resource, params, sender, receiver) ==
    [Envelope("resource-transfer-request", id, sender, receiver)
        EXCEPT !.name = Some(resource), !.params = params]

makeResourceTransferResponse(id, resource, params, chunk, meta, error, final, sender, receiver) ==
    [Envelope("resource-transfer-response", id, sender, receiver)
        EXCEPT !.name = resource, !.params = params, !.chunk = chunk,
               !.meta = meta, !.error = error, !.final = Some(final)]

----------------------------------------------------------------------------
(* The MQTT client calls of a turn, and the broker *)

OpSubscribe(c, t)   == [op |-> "subscribe",   client |-> c, topic |-> t, msg |-> None]
OpUnsubscribe(c, t) == [op |-> "unsubscribe", client |-> c, topic |-> t, msg |-> None]
OpPublish(c, t, m)  == [op |-> "publish",     client |-> c, topic |-> t, msg |-> Some(m)]

(* an unsubscribe the client reports as failed: it does not reach the broker *)
OpUnsubscribeFailed(c, t) ==
    [op |-> "unsubscribe-failed", client |-> c, topic |-> t, msg |-> None]

Issue(w, o) == [w EXCEPT !.ops = Append(@, o)]

(* the operation throws (an async one: its promise rejects) *)
Throw(w, message) == [w EXCEPT !.thrown = Some(message)]

(* the broker: subscriptions are per client and exact-match; a publish is  *)
(* queued, in order, for every client subscribed to its topic              *)
BrokerSubsAfter(subs, o) ==
    IF o.op = "subscribe"
    THEN [subs EXCEPT ![o.client] = @ \cup {o.topic}]
    ELSE IF o.op = "unsubscribe"
    THEN [subs EXCEPT ![o.client] = @ \ {o.topic}]
    ELSE subs

BrokerInboxAfter(subs, box, o) ==
    IF o.op = "publish"
    THEN [c \in Clients |->
            IF o.topic \in subs[c]
            THEN Append(box[c], [topic |-> o.topic, msg |-> Get(o.msg)])
            ELSE box[c]]
    ELSE box

RECURSIVE BrokerApply(_, _, _)
BrokerApply(subs, box, ops) ==
    IF ops = <<>> THEN [subs |-> subs, box |-> box]
    ELSE BrokerApply(BrokerSubsAfter(subs, Head(ops)),
                     BrokerInboxAfter(subs, box, Head(ops)),
                     Tail(ops))

----------------------------------------------------------------------------
(* Peers *)

(* the private state of a peer after construction: options.id, the MQTT    *)
(* client it was constructed with, and the empty tables of the traits      *)
NewPeer(id, client) ==
    [id |-> id, mqtt |-> client,
     listening             |-> TRUE,       \* BaseTrait: the "message" listener is installed
     subscriptions         |-> {},         \* EventTrait: event -> handler
     registrations         |-> {},         \* ServiceTrait: service -> handler
     responseCallback      |-> EmptyMap,   \* ServiceTrait: rid -> {service, callback}
     responseSubscriptions |-> EmptyMap,   \* ServiceTrait: topic -> count
     provisionings         |-> {},         \* ResourceTrait: resource -> handler
     callbacks             |-> EmptyMap,   \* ResourceTrait: rid -> {resource, callback}
     pushStreams           |-> EmptyMap,   \* ResourceTrait: rid -> Readable
     pushTimers            |-> EmptyMap]   \* ResourceTrait: rid -> timer

(* new MQTTp(mqtt, {id}): the constructor stores the client and calls      *)
(* this.mqtt.on("message", ...); mqtt is None for null                     *)
construct(w, id, mqtt) ==
    IF mqtt = None
    THEN Throw(w, "TypeError: Cannot read properties of null (reading 'on')")
    ELSE [w EXCEPT !.peers[id] = NewPeer(id, Get(mqtt))]

(* what the application's service handler does with its parameters (the    *)
(* handler of the test suite): it throws unless it likes them, and returns *)
(* a value derived from them                                               *)
ServiceHandler(params) ==
    IF params = <<"bad">>
    THEN [ok |-> FALSE, value |-> "invalid service call"]
    ELSE [ok |-> TRUE,  value |-> params[1] \o ":42"]

----------------------------------------------------------------------------
(* Handles: the Subscription, Registration or Provisioning object a        *)
(* successful subscribe, register or provision returns.  Its closure holds *)
(* the name and the topics; n numbers the handles of one endpoint of one   *)
(* peer in the order they were returned.                                   *)

Handle(kind, peer, name, n) == [kind |-> kind, peer |-> peer, name |-> name, n |-> n]

SameEndpoint(x, k) == x.kind = k.kind /\ x.peer = k.peer /\ x.name = k.name

(* the handle the next successful call for the endpoint returns *)
NextHandle(hs, kind, peer, name) ==
    LET k == Handle(kind, peer, name, 0)
    IN  [k EXCEPT !.n = Cardinality({x \in DOMAIN hs : SameEndpoint(x, k)}) + 1]

(* table.set(name, callback): the callback of handle k is the one stored *)
HandleSet(hs, k) ==
    [x \in (DOMAIN hs) \cup {k} |->
        IF x = k THEN [current |-> TRUE, torn |-> FALSE, outcome |-> "none"]
        ELSE IF SameEndpoint(x, k) THEN [hs[x] EXCEPT !.current = FALSE]
        ELSE hs[x]]

(* table.delete(name) in the teardown of handle k: no callback is stored *)
HandleDelete(hs, k) ==
    [x \in DOMAIN hs |->
        IF x = k THEN [current |-> FALSE, torn |-> TRUE, outcome |-> "pending"]
        ELSE IF SameEndpoint(x, k) THEN [hs[x] EXCEPT !.current = FALSE]
        ELSE hs[x]]

(* the topics a handle subscribed: broadcast and direct *)
HandleTopics(k) ==
    LET ops == CASE k.kind = "subscribe" -> <<"event-emission">>
                 [] k.kind = "register"  -> <<"service-call-request">>
                 [] k.kind = "provision" -> <<"resource-transfer-request",
                                              "resource-transfer-response">>
    IN  UNION {{topicMake(k.name, ops[i], None), topicMake(k.name, ops[i], Some(k.peer))}
                  : i \in 1..Len(ops)}

(* this._unsubscribeTopic(topic), which the client may report as failed *)
_unsubscribeTopic(w, client, topic, fail) ==
    Issue(w, IF fail THEN OpUnsubscribeFailed(client, topic) ELSE OpUnsubscribe(client, topic))

(* Promise.all over the unsubscribes of a teardown settles *)
teardownDone(w, j) ==
    [w EXCEPT !.jobs = @ \ {j},
              !.target = Some(j.handle),
              !.handles[j.handle].outcome = IF j.fail THEN "rejected" ELSE "resolved"]

----------------------------------------------------------------------------
(* ServiceTrait *)

(* the promise of a call(): resolve and reject settle it the first time    *)
(* only; settles counts the invocations of either                          *)
Resolve(call, result) ==
    [call EXCEPT !.settles = @ + 1,
                 !.outcome = IF IsSome(@) THEN @
                             ELSE Some([kind |-> "resolved", value |-> result])]

Reject(call, message) ==
    [call EXCEPT !.settles = @ + 1,
                 !.outcome = IF IsSome(@) THEN @
                             ELSE Some([kind |-> "rejected", value |-> message])]

(* the callback stored in responseCallback: clears the timer, settles *)
CallCallback(call, err, result) ==
    LET c1 == [call EXCEPT !.timer = "null"]
    IN  IF IsSome(err) THEN Reject(c1, Get(err)) ELSE Resolve(c1, Get(result))

(* a subscribe that does not count the calls sharing the topic *)
_responseSubscribe_NoCount(w, p, service) ==
    LET me    == w.peers[p]
        topic == topicMake(service, "service-call-response", Some(me.id))
        fresh == ~MapHas(me.responseSubscriptions, topic)
        w1    == IF fresh THEN Issue(w, OpSubscribe(me.mqtt, topic)) ELSE w
    IN  [w1 EXCEPT !.peers[p].responseSubscriptions = MapSet(@, topic, 1)]

_responseSubscribe(w, p, service) ==
    LET me    == w.peers[p]
        topic == topicMake(service, "service-call-response", Some(me.id))
        fresh == ~MapHas(me.responseSubscriptions, topic)
        w1    == IF fresh THEN Issue(w, OpSubscribe(me.mqtt, topic)) ELSE w
        count == IF fresh THEN 0 ELSE me.responseSubscriptions[topic]
    IN  [w1 EXCEPT !.peers[p].responseSubscriptions = MapSet(@, topic, count + 1)]

(* an unsubscribe that does not count *)
_responseUnsubscribe_NoCount(w, p, service) ==
    LET me    == w.peers[p]
        topic == topicMake(service, "service-call-response", Some(me.id))
    IN  IF ~MapHas(me.responseSubscriptions, topic) THEN w
        ELSE Issue([w EXCEPT !.peers[p].responseSubscriptions = MapDel(@, topic)],
                   OpUnsubscribe(me.mqtt, topic))

_responseUnsubscribe(w, p, service) ==
    LET me    == w.peers[p]
        topic == topicMake(service, "service-call-response", Some(me.id))
    IN  IF ~MapHas(me.responseSubscriptions, topic) THEN w
        ELSE LET count == me.responseSubscriptions[topic] - 1
             IN  IF count = 0
                 THEN Issue([w EXCEPT !.peers[p].responseSubscriptions = MapDel(@, topic)],
                            OpUnsubscribe(me.mqtt, topic))
                 ELSE [w EXCEPT !.peers[p].responseSubscriptions = MapSet(@, topic, count)]

(* call(): pub tells what the transport reports to the publish callback:   *)
(* "ok", or "sent" for an error reported later although the request went   *)
(* out                                                                     *)
call(w, p, service, params, receiver, pub) ==
    LET me      == w.peers[p]
        rid     == w.nextId
        w1      == _responseSubscribe([w EXCEPT !.nextId = @ + 1], p, service)
        w2      == [w1 EXCEPT
                      !.calls = MapSet(@, rid,
                          [peer |-> p, service |-> service, params |-> params,
                           timer |-> "armed",
                           outcome |-> None, settles |-> 0,
                           publishError |-> pub /= "ok"]),
                      !.peers[p].responseCallback = MapSet(@, rid, [service |-> service])]
        request == makeServiceCallRequest(rid, service, params, Some(me.id), receiver)
        topic   == topicMake(service, "service-call-request", receiver)
    IN  Issue(w2, OpPublish(me.mqtt, topic, request))

(* a timer that rejects and leaves the pending entry in the table *)
callTimeout_KeepEntry(w, rid) ==
    LET c  == w.calls[rid]
        w2 == _responseUnsubscribe(w, c.peer, c.service)
    IN  [w2 EXCEPT !.calls[rid] = Reject([@ EXCEPT !.timer = "null"], "communication timeout")]

(* the timer of a call() expires *)
callTimeout(w, rid) ==
    LET c  == w.calls[rid]
        w1 == [w EXCEPT !.peers[c.peer].responseCallback = MapDel(@, rid)]
        w2 == _responseUnsubscribe(w1, c.peer, c.service)
    IN  [w2 EXCEPT !.calls[rid] = Reject([@ EXCEPT !.timer = "null"], "communication timeout")]

(* a publish callback that does not look for the pending entry *)
callPublishFailed_Unchecked(w, rid, err) ==
    LET c  == w.calls[rid]
        w0 == [w EXCEPT !.calls[rid].publishError = FALSE]
        w1 == [w0 EXCEPT !.peers[c.peer].responseCallback = MapDel(@, rid)]
        w2 == _responseUnsubscribe(w1, c.peer, c.service)
    IN  [w2 EXCEPT !.calls[rid] = CallCallback(@, Some(err), None)]

(* the publish callback of a call() is invoked with an error *)
callPublishFailed(w, rid, err) ==
    LET c  == w.calls[rid]
        w0 == [w EXCEPT !.calls[rid].publishError = FALSE]
    IN  IF MapHas(w.peers[c.peer].responseCallback, rid)
        THEN LET w1 == [w0 EXCEPT !.peers[c.peer].responseCallback = MapDel(@, rid)]
                 w2 == _responseUnsubscribe(w1, c.peer, c.service)
             IN  [w2 EXCEPT !.calls[rid] = CallCallback(@, Some(err), None)]
        ELSE w0

(* a chain that answers only when the peer has a handler *)
serviceRespond_SilentNotFound(w, j) ==
    LET me  == w.peers[j.peer]
        out == ServiceHandler(j.params)
        rpcResponse ==
            IF out.ok
            THEN makeServiceCallResponse(j.id, Some(out.value), None, Some(me.id), j.sender)
            ELSE makeServiceCallResponse(j.id, None, Some(out.value), Some(me.id), j.sender)
        w1  == [w EXCEPT !.jobs = @ \ {j}]
    IN  IF ~j.hasHandler THEN w1
        ELSE Issue(w1, OpPublish(me.mqtt,
                       topicMake(j.name, "service-call-response", j.sender), rpcResponse))

(* a chain that publishes the response whether or not it has a sender *)
serviceRespond_NoSenderCheck(w, j) ==
    LET me  == w.peers[j.peer]
        out == IF j.hasHandler THEN ServiceHandler(j.params)
               ELSE [ok |-> FALSE, value |-> "method not found: " \o j.name]
        rpcResponse ==
            IF out.ok
            THEN makeServiceCallResponse(j.id, Some(out.value), None, Some(me.id), j.sender)
            ELSE makeServiceCallResponse(j.id, None, Some(out.value), Some(me.id), j.sender)
    IN  Issue([w EXCEPT !.jobs = @ \ {j}],
              OpPublish(me.mqtt, topicMake(j.name, "service-call-response", j.sender),
                        rpcResponse))

(* the handler promise chain of an inbound service-call-request settles:   *)
(* build the response, publish it to the requester's response topic        *)
serviceRespond(w, j) ==
    LET me  == w.peers[j.peer]
        out == IF j.hasHandler THEN ServiceHandler(j.params)
               ELSE [ok |-> FALSE, value |-> "method not found: " \o j.name]
        rpcResponse ==
            IF out.ok
            THEN makeServiceCallResponse(j.id, Some(out.value), None, Some(me.id), j.sender)
            ELSE makeServiceCallResponse(j.id, None, Some(out.value), Some(me.id), j.sender)
        w1  == [w EXCEPT !.jobs = @ \ {j}]
    IN  IF ~IsSome(j.sender)
        THEN [w1 EXCEPT !.errors[me.mqtt] = Append(@, "invalid request: missing sender")]
        ELSE Issue(w1, OpPublish(me.mqtt,
                       topicMake(j.name, "service-call-response", j.sender), rpcResponse))

(* EventTrait.subscribe: the two broker subscribes are issued, the handler *)
(* is stored once both are acknowledged                                    *)
(* a subscribe() without the sanity check *)
subscribeStart_NoCheck(w, p, event) ==
    LET me     == w.peers[p]
        topicB == topicMake(event, "event-emission", None)
        topicD == topicMake(event, "event-emission", Some(me.id))
        w0     == [w EXCEPT !.target = Some(Handle("subscribe", p, event, 0))]
        w1     == Issue(Issue(w0, OpSubscribe(me.mqtt, topicB)), OpSubscribe(me.mqtt, topicD))
    IN  [w1 EXCEPT !.jobs = @ \cup {[kind |-> "subscribe", peer |-> p, name |-> event]}]

subscribeStart(w, p, event) ==
    LET me     == w.peers[p]
        topicB == topicMake(event, "event-emission", None)
        topicD == topicMake(event, "event-emission", Some(me.id))
        w0     == [w EXCEPT !.target = Some(Handle("subscribe", p, event, 0))]
        w1     == Issue(Issue(w0, OpSubscribe(me.mqtt, topicB)), OpSubscribe(me.mqtt, topicD))
    IN  IF event \in me.subscriptions
        THEN Throw(w0, "subscribe: event \"" \o event \o "\" already subscribed")
        ELSE [w1 EXCEPT !.jobs = @ \cup {[kind |-> "subscribe", peer |-> p, name |-> event]}]

subscribeDone(w, j) ==
    LET k == NextHandle(w.handles, "subscribe", j.peer, j.name)
    IN  [w EXCEPT !.jobs = @ \ {j},
                  !.target = Some(k),
                  !.handles = HandleSet(@, k),
                  !.peers[j.peer].subscriptions = @ \cup {j.name}]

(* an unsubscribe() that keeps the handler when the broker call fails *)
unsubscribe_KeepOnFail(w, k, fail) ==
    LET me     == w.peers[k.peer]
        topicB == topicMake(k.name, "event-emission", None)
        topicD == topicMake(k.name, "event-emission", Some(me.id))
        w0     == [w EXCEPT !.target = Some(k)]
        w1     == [w0 EXCEPT !.peers[k.peer].subscriptions = IF fail THEN @ ELSE @ \ {k.name},
                             !.handles = HandleDelete(@, k)]
        w2     == _unsubscribeTopic(_unsubscribeTopic(w1, me.mqtt, topicB, fail),
                                    me.mqtt, topicD, fail)
    IN  IF k.name \notin me.subscriptions
        THEN Throw(w0, "unsubscribe: event \"" \o k.name \o "\" not subscribed")
        ELSE [w2 EXCEPT !.jobs = @ \cup
                 {[kind |-> "teardown", peer |-> k.peer, handle |-> k, fail |-> fail]}]

(* Subscription.unsubscribe() of handle k *)
unsubscribe(w, k, fail) ==
    LET me     == w.peers[k.peer]
        topicB == topicMake(k.name, "event-emission", None)
        topicD == topicMake(k.name, "event-emission", Some(me.id))
        w0     == [w EXCEPT !.target = Some(k)]
        w1     == [w0 EXCEPT !.peers[k.peer].subscriptions = @ \ {k.name},
                             !.handles = HandleDelete(@, k)]
        w2     == _unsubscribeTopic(_unsubscribeTopic(w1, me.mqtt, topicB, fail),
                                    me.mqtt, topicD, fail)
    IN  IF k.name \notin me.subscriptions
        THEN Throw(w0, "unsubscribe: event \"" \o k.name \o "\" not subscribed")
        ELSE [w2 EXCEPT !.jobs = @ \cup
                 {[kind |-> "teardown", peer |-> k.peer, handle |-> k, fail |-> fail]}]

(* EventTrait.emit *)
emit(w, p, event, params, receiver) ==
    LET me      == w.peers[p]
        rid     == w.nextId
        request == makeEventEmission(rid, event, params, Some(me.id), receiver)
        topic   == topicMake(event, "event-emission", receiver)
    IN  Issue([w EXCEPT !.nextId = @ + 1], OpPublish(me.mqtt, topic, request))

(* emit(config), the object-based API: event, params, receiver and options *)
(* are taken from the config, no other field of it is read; the function   *)
(* returns nothing (the step keeps the config as its target)               *)
emitConfig(w, p, config) ==
    emit([w EXCEPT !.target = Some(config)], p, config.event, config.params, config.receiver)

(* what the application's event handler does with its parameters: it      *)
(* returns, throws, or returns a promise that rejects later                *)
EventHandler(params) ==
    CASE params = Some(<<"bad">>)  -> [kind |-> "throws",  value |-> "invalid event"]
      [] params = Some(<<"late">>) -> [kind |-> "rejects", value |-> "event refused"]
      [] OTHER                     -> [kind |-> "returns", value |-> ""]

(* a dispatch whose chain has no catch: the error of the handler is lost *)
EventDispatch_Swallow(w, p, topic, parsed) ==
    LET me == w.peers[p]
        tm == topicMatch(topic)
    IN  IF tm.operation = "event-emission" /\ parsed.type = "event-emission"
        THEN IF Get(parsed.name) \in me.subscriptions
             THEN [w EXCEPT !.invoked = @ \cup
                      {[peer |-> p, kind |-> "event", id |-> parsed.id,
                        receiver |-> parsed.receiver]}]
             ELSE w
        ELSE w

(* EventTrait._dispatchMessage: the handler runs in a promise chain whose  *)
(* catch emits the error on the MQTT client                                *)
EventDispatch(w, p, topic, parsed) ==
    LET me  == w.peers[p]
        tm  == topicMatch(topic)
        out == EventHandler(parsed.params)
        w1  == [w EXCEPT !.invoked = @ \cup
                   {[peer |-> p, kind |-> "event", id |-> parsed.id,
                     receiver |-> parsed.receiver]}]
    IN  IF tm.operation = "event-emission" /\ parsed.type = "event-emission"
        THEN IF Get(parsed.name) \in me.subscriptions
             THEN CASE out.kind = "throws" ->
                         [w1 EXCEPT !.errors[me.mqtt] = Append(@, out.value)]
                    [] out.kind = "rejects" ->
                         [w1 EXCEPT !.jobs = @ \cup
                             {[kind |-> "event", peer |-> p, id |-> parsed.id,
                               error |-> out.value]}]
                    [] OTHER -> w1
             ELSE w
        ELSE w

(* the promise an event handler returned rejects *)
eventRejected(w, j) ==
    [w EXCEPT !.jobs = @ \ {j},
              !.errors[w.peers[j.peer].mqtt] = Append(@, j.error)]

(* a lookup that ignores the id and takes the oldest pending entry *)
responseCallbackGet_AnyPending(me, rid) ==
    IF DOMAIN me.responseCallback /= {}
    THEN Some(CHOOSE k \in DOMAIN me.responseCallback :
                  \A j \in DOMAIN me.responseCallback : k <= j)
    ELSE None

(* this.responseCallback.get(rid): the key of the entry found, if any *)
responseCallbackGet(me, rid) ==
    IF MapHas(me.responseCallback, rid) THEN Some(rid) ELSE None

(* ServiceTrait._dispatchMessage *)
ServiceDispatch(w, p, topic, parsed) ==
    LET me == w.peers[p]
        tm == topicMatch(topic)
    IN  IF tm.operation = "service-call-request" /\ parsed.type = "service-call-request"
        THEN LET name == Get(parsed.name)
                 has  == name \in me.registrations
                 job  == [kind |-> "service", peer |-> p, id |-> parsed.id,
                          name |-> name, sender |-> parsed.sender,
                          params |-> parsed.params, hasHandler |-> has]
                 w1   == [w EXCEPT !.jobs = @ \cup {job}]
             IN  IF has
                 THEN [w1 EXCEPT !.invoked = @ \cup
                          {[peer |-> p, kind |-> "service", id |-> parsed.id,
                            receiver |-> parsed.receiver]}]
                 ELSE w1
        ELSE IF /\ tm.operation = "service-call-response"
                /\ tm.peerId = Some(me.id)
                /\ parsed.type = "service-call-response"
        THEN LET found == responseCallbackGet(me, parsed.id)
             IN  IF IsSome(found)
                 THEN LET rid == Get(found)
                          request == me.responseCallback[rid]
                          w1 == [w EXCEPT !.calls[rid] =
                                    IF IsSome(parsed.error)
                                    THEN CallCallback(@, parsed.error, None)
                                    ELSE CallCallback(@, None, parsed.result)]
                          w2 == [w1 EXCEPT !.peers[p].responseCallback = MapDel(@, rid)]
                      IN  _responseUnsubscribe(w2, p, request.service)
                 ELSE w
        ELSE w

----------------------------------------------------------------------------
(* Chunking (mqtt-plus-util) *)

Min(a, b) == IF a < b THEN a ELSE b

(* a slice that runs to the end of the buffer *)
subarray_ToEnd(buffer, i, j) == SubSeq(buffer, i + 1, Len(buffer))

(* buffer.subarray(i, j), 0-based and end-exclusive *)
subarray(buffer, i, j) == SubSeq(buffer, i + 1, j)

(* a Readable: the chunks pushed to it, and whether it ended or was destroyed *)
NewReadable == [data |-> <<>>, state |-> "open", error |-> None]

ReadablePush(r, chunk) ==
    IF r.state = "open" THEN [r EXCEPT !.data = @ \o chunk] ELSE r

ReadableEnd(r) ==
    IF r.state = "open" THEN [r EXCEPT !.state = "ended"] ELSE r

ReadableDestroy(r, message) ==
    IF r.state = "destroyed" THEN r
    ELSE [r EXCEPT !.state = "destroyed", !.error = Some(message)]

(* streamToBuffer: resolves with the concatenation of the chunks when the  *)
(* stream ends, rejects when it errors                                     *)
streamToBuffer(r) ==
    IF r.state = "ended" THEN [state |-> "resolved", value |-> r.data, error |-> None]
    ELSE IF r.state = "destroyed" /\ IsSome(r.error)
    THEN [state |-> "rejected", value |-> <<>>, error |-> r.error]
    ELSE [state |-> "pending", value |-> <<>>, error |-> None]

(* the sendChunk closure of push() and of the fetch request handler: x is  *)
(* the world and the closure t = {rid, resource, params, meta, firstChunk, *)
(* topic, sender, receiver} of one transfer                                *)
sendChunk(x, chunk, error, final) ==
    LET t == x.t
        chunkMeta == IF t.firstChunk THEN t.meta ELSE None
        request == makeResourceTransferResponse(t.id, Some(t.resource), t.params,
                       chunk, chunkMeta, error, final, Some(t.peer), t.receiver)
    IN  [w |-> Issue([x.w EXCEPT !.transfers[<<t.peer, t.id>>].sent = @ + 1],
                     OpPublish(x.w.peers[t.peer].mqtt, t.topic, request)),
         t |-> [t EXCEPT !.firstChunk = FALSE]]

RECURSIVE sendBufferLoop(_, _, _, _)
sendBufferLoop(x, buffer, chunkSize, i) ==
    IF i < Len(buffer)
    THEN LET size  == Min(Len(buffer) - i, chunkSize)
             chunk == subarray(buffer, i, i + size)
             final == (i + size >= Len(buffer))
         IN  sendBufferLoop(sendChunk(x, Some(chunk), None, final),
                            buffer, chunkSize, i + chunkSize)
    ELSE x

(* a sender that publishes nothing for an empty buffer *)
sendBufferAsChunks_Silent(x, buffer, chunkSize) ==
    sendBufferLoop(x, buffer, chunkSize, 0)

sendBufferAsChunks(x, buffer, chunkSize) ==
    IF Len(buffer) = 0
    THEN sendChunk(x, None, None, TRUE)
    ELSE sendBufferLoop(x, buffer, chunkSize, 0)

(* sendStreamAsChunks, one "readable" read: readable.read(chunkSize) gives *)
(* chunkSize bytes, or what is left once the source has ended              *)
streamRead(x, chunkSize) ==
    LET size == Min(Len(x.t.rest), chunkSize)
        x1   == sendChunk(x, Some(SubSeq(x.t.rest, 1, size)), None, FALSE)
    IN  [x1 EXCEPT !.t.rest = SubSeq(@, size + 1, Len(@))]

(* sendStreamAsChunks, "end" *)
streamEnd(x) == sendChunk(x, None, None, TRUE)

(* sendStreamAsChunks, "error" *)
streamError(x, message) == sendChunk(x, None, Some(message), TRUE)

----------------------------------------------------------------------------
(* ResourceTrait *)

(* push(): the closure of the transfer *)
PushTransfer(w, p, resource, params, meta, receiver) ==
    [kind |-> "push", peer |-> p, id |-> w.nextId, resource |-> resource,
     params |-> params, meta |-> meta, firstChunk |-> TRUE,
     topic |-> topicMake(resource, "resource-transfer-response", receiver),
     receiver |-> receiver, rest |-> <<>>, phase |-> "stream", request |-> None]

(* what the application handed to a transfer, and how far it got *)
NewTransfer(w, t, source, data, meta) ==
    [w EXCEPT !.transfers = MapSet(@, <<t.peer, t.id>>,
                  [kind |-> t.kind, source |-> source, data |-> data,
                   meta |-> meta, outcome |-> "pending", done |-> "no", sent |-> 0])]

(* push() of a Buffer: all chunks are published in the same turn *)
pushBuffer(w, p, resource, buffer, params, meta, receiver) ==
    LET t == PushTransfer(w, p, resource, params, meta, receiver)
        w1 == [NewTransfer(w, t, "buffer", buffer, meta) EXCEPT !.nextId = @ + 1]
        x == sendBufferAsChunks([w |-> w1, t |-> t], buffer, ChunkSize)
    IN  [x.w EXCEPT !.transfers[<<p, t.id>>].outcome = "resolved",
                    !.transfers[<<p, t.id>>].done = "ended"]

(* push() of a Readable: the listeners are attached *)
pushStream(w, p, resource, data, params, meta, receiver) ==
    LET t == PushTransfer(w, p, resource, params, meta, receiver)
    IN  [NewTransfer(w, t, "stream", data, meta) EXCEPT
            !.nextId = @ + 1, !.jobs = @ \cup {[t EXCEPT !.rest = data]}]

(* fetch(): the request id is drawn and the response topic subscribed *)
fetchStart(w, p, resource, params, receiver) ==
    LET me == w.peers[p]
        requestId == w.nextId
        responseTopic == topicMake(resource, "resource-transfer-response", Some(me.id))
        w1 == Issue([w EXCEPT !.nextId = @ + 1], OpSubscribe(me.mqtt, responseTopic))
    IN  [w1 EXCEPT !.fetches = MapSet(@, requestId,
            [peer |-> p, resource |-> resource, params |-> params, receiver |-> receiver,
             responseTopic |-> responseTopic, phase |-> "subscribing",
             timer |-> "null", firstChunk |-> TRUE, meta |-> None,
             stream |-> NewReadable])]

(* fetch() after the subscribe was acknowledged *)
fetchSubscribed(w, requestId) ==
    LET f  == w.fetches[requestId]
        me == w.peers[f.peer]
        w1 == [w EXCEPT !.fetches[requestId].phase = "active",
                        !.fetches[requestId].timer = "armed",
                        !.peers[f.peer].callbacks = MapSet(@, requestId, [resource |-> f.resource])]
        request == makeResourceTransferRequest(requestId, f.resource, f.params,
                                               Some(me.id), f.receiver)
        topic   == topicMake(f.resource, "resource-transfer-request", f.receiver)
    IN  Issue(w1, OpPublish(me.mqtt, topic, request))

(* a cleanup that leaves the entry in the callback table *)
fetchCleanup_KeepEntry(w, requestId) ==
    LET f  == w.fetches[requestId]
        w1 == [w EXCEPT !.fetches[requestId].timer = "null"]
    IN  Issue(w1, OpUnsubscribe(w.peers[f.peer].mqtt, f.responseTopic))

(* the cleanup closure of a fetch() *)
fetchCleanup(w, requestId) ==
    LET f  == w.fetches[requestId]
        w1 == [w EXCEPT !.fetches[requestId].timer = "null"]
        w2 == Issue(w1, OpUnsubscribe(w.peers[f.peer].mqtt, f.responseTopic))
    IN  [w2 EXCEPT !.peers[f.peer].callbacks = MapDel(@, requestId)]

(* a promise resolves once *)
MetaResolve(f, value) ==
    IF IsSome(f.meta) THEN f ELSE [f EXCEPT !.meta = Some(value)]

(* a timer that destroys the stream and cleans nothing up *)
fetchTimeout_NoCleanup(w, requestId) ==
    [w EXCEPT !.fetches[requestId] =
        [MetaResolve(@, None) EXCEPT
            !.timer = "null",
            !.stream = ReadableDestroy(@, "communication timeout")]]

(* the timer of a fetch() expires *)
fetchTimeout(w, requestId) ==
    LET w1 == fetchCleanup(w, requestId)
    IN  [w1 EXCEPT !.fetches[requestId] =
            [MetaResolve(@, None) EXCEPT
                !.stream = ReadableDestroy(@, "communication timeout")]]

(* the callback a fetch() stores in callbacks *)
fetchCallback(w, requestId, error, chunk, meta, final) ==
    LET f  == w.fetches[requestId]
        w1 == IF f.firstChunk
              THEN [w EXCEPT !.fetches[requestId] =
                       MetaResolve([@ EXCEPT !.firstChunk = FALSE], meta)]
              ELSE w
    IN  IF IsSome(error)
        THEN [fetchCleanup(w1, requestId) EXCEPT
                 !.fetches[requestId].stream = ReadableDestroy(@, Get(error))]
        ELSE LET w2 == IF IsSome(chunk)
                       THEN [w1 EXCEPT !.fetches[requestId].stream = ReadablePush(@, Get(chunk))]
                       ELSE w1
             IN  IF final = Some(TRUE)
                 THEN [fetchCleanup(w2, requestId) EXCEPT
                          !.fetches[requestId].stream = ReadableEnd(@)]
                 ELSE w2

(* a timer that destroys the stream and leaves its entry in the table *)
pushTimeout_KeepEntry(w, tm) ==
    LET me == w.peers[tm.peer]
        w1 == [w EXCEPT !.armed = @ \ {tm}]
    IN  IF MapHas(me.pushStreams, tm.id)
        THEN [w1 EXCEPT
                !.streams[me.pushStreams[tm.id]] = ReadableDestroy(@, "push stream timeout"),
                !.peers[tm.peer].pushTimers = MapDel(@, tm.id)]
        ELSE w1

(* a timer that spares the stream when the resource is not provisioned *)
pushTimeout_IfProvisioned(w, tm) ==
    LET me == w.peers[tm.peer]
        w1 == [w EXCEPT !.armed = @ \ {tm}]
    IN  IF MapHas(me.pushStreams, tm.id) /\ me.provisionings /= {}
        THEN [w1 EXCEPT
                !.streams[me.pushStreams[tm.id]] = ReadableDestroy(@, "push stream timeout"),
                !.peers[tm.peer].pushStreams = MapDel(@, tm.id),
                !.peers[tm.peer].pushTimers = MapDel(@, tm.id)]
        ELSE w1

(* the timer of a push stream expires *)
pushTimeout(w, tm) ==
    LET me == w.peers[tm.peer]
        w1 == [w EXCEPT !.armed = @ \ {tm}]
    IN  IF MapHas(me.pushStreams, tm.id)
        THEN [w1 EXCEPT
                !.streams[me.pushStreams[tm.id]] = ReadableDestroy(@, "push stream timeout"),
                !.peers[tm.peer].pushStreams = MapDel(@, tm.id),
                !.peers[tm.peer].pushTimers = MapDel(@, tm.id)]
        ELSE w1

(* a cleanup utility that cancels the timer and keeps its table entry *)
clearPushTimer_KeepEntry(w, p, requestId) ==
    LET me == w.peers[p]
    IN  IF MapHas(me.pushTimers, requestId)
        THEN [w EXCEPT !.armed = @ \ {me.pushTimers[requestId]}]
        ELSE w

(* the utility to cleanup the timer of a push stream *)
clearPushTimer(w, p, requestId) ==
    LET me == w.peers[p]
    IN  IF MapHas(me.pushTimers, requestId)
        THEN [w EXCEPT !.armed = @ \ {me.pushTimers[requestId]},
                       !.peers[p].pushTimers = MapDel(@, requestId)]
        ELSE w

(* ResourceTrait._dispatchMessage *)
ResourceDispatch(w, p, topic, parsed) ==
    LET me == w.peers[p]
        tm == topicMatch(topic)
    IN  IF tm.operation = "resource-transfer-request" /\ parsed.type = "resource-transfer-request"
        THEN LET name == Get(parsed.name)
             IN  IF name \in me.provisionings
                 THEN LET sender == IF IsSome(parsed.sender) THEN Get(parsed.sender) ELSE ""
                          job == [kind |-> "serve", peer |-> p, id |-> parsed.id,
                                  resource |-> name, params |-> None, meta |-> None,
                                  firstChunk |-> TRUE,
                                  topic |-> topicMake(name, "resource-transfer-response", Some(sender)),
                                  receiver |-> Some(sender), rest |-> <<>>,
                                  phase |-> "handler", request |-> parsed.params]
                      IN  [w EXCEPT !.jobs = @ \cup {job},
                                    !.invoked = @ \cup
                                        {[peer |-> p, kind |-> "fetch", id |-> parsed.id,
                                          receiver |-> parsed.receiver]}]
                 ELSE w
        ELSE IF tm.operation = "resource-transfer-response" /\ parsed.type = "resource-transfer-response"
        THEN LET requestId == parsed.id
                 error == parsed.error
                 meta  == parsed.meta
                 final == parsed.final
                 chunk == parsed.chunk
             IN  IF MapHas(me.callbacks, requestId)
                 THEN \* case 1: response on fetch; `error ? new Error(error) : undefined`
                      fetchCallback(w, requestId,
                          IF IsSome(error) /\ Get(error) /= "" THEN error ELSE None,
                          chunk, meta, final)
                 ELSE IF IsSome(parsed.name) /\ Get(parsed.name) \in me.provisionings
                 THEN \* case 2: response on push
                      LET new == ~MapHas(me.pushStreams, requestId)
                          sid == Len(w.streams) + 1
                          tmr == [peer |-> p, id |-> requestId, stream |-> sid]
                          w1  == IF new
                                 THEN [w EXCEPT
                                        !.streams = Append(@, NewReadable),
                                        !.peers[p].pushStreams = MapSet(@, requestId, sid),
                                        !.armed = @ \cup {tmr},
                                        !.peers[p].pushTimers = MapSet(@, requestId, tmr),
                                        !.pushed = Append(@,
                                            [peer |-> p, id |-> requestId, stream |-> sid,
                                             meta |-> meta, params |-> parsed.params]),
                                        !.invoked = @ \cup
                                            {[peer |-> p, kind |-> "push", id |-> requestId,
                                              receiver |-> parsed.receiver]}]
                                 ELSE w
                          readable == w1.peers[p].pushStreams[requestId]
                      IN  IF IsSome(error)
                          THEN [clearPushTimer(w1, p, requestId) EXCEPT
                                   !.streams[readable] = ReadableDestroy(@, Get(error)),
                                   !.peers[p].pushStreams = MapDel(@, requestId)]
                          ELSE LET w2 == IF IsSome(chunk)
                                         THEN [w1 EXCEPT !.streams[readable] =
                                                  ReadablePush(@, Get(chunk))]
                                         ELSE w1
                               IN  IF final = Some(TRUE)
                                   THEN [clearPushTimer(w2, p, requestId) EXCEPT
                                            !.streams[readable] = ReadableEnd(@),
                                            !.peers[p].pushStreams = MapDel(@, requestId)]
                                   ELSE w2
                 ELSE w
        ELSE w

(* a request handler that publishes nothing when info.resource is null *)
serveHandled_Silent(w, j, h) ==
    LET w0 == [w EXCEPT !.jobs = @ \ {j}]
        t  == [j EXCEPT !.meta = h.meta]
        w1 == NewTransfer(w0, t, h.kind, h.data, h.meta)
        k  == <<j.peer, j.id>>
    IN  CASE h.kind = "throw"  ->
                 [sendChunk([w |-> w1, t |-> t], None, Some(h.message), TRUE).w
                     EXCEPT !.transfers[k].done = "errored"]
          [] h.kind = "none"   -> [w1 EXCEPT !.transfers[k].done = "errored"]
          [] h.kind = "buffer" ->
                 [sendBufferAsChunks([w |-> w1, t |-> t], h.data, ChunkSize).w
                     EXCEPT !.transfers[k].done = "ended"]
          [] h.kind = "stream" ->
                 [w1 EXCEPT !.jobs = @ \cup {[t EXCEPT !.phase = "stream", !.rest = h.data]}]

(* the provisioner's handler has run for a fetch request: it threw, left   *)
(* info.resource null, or set it to a Buffer or a Readable (and info.meta) *)
serveHandled(w, j, h) ==
    LET w0 == [w EXCEPT !.jobs = @ \ {j}]
        t  == [j EXCEPT !.meta = h.meta]
        w1 == NewTransfer(w0, t, h.kind, h.data, h.meta)
        k  == <<j.peer, j.id>>
    IN  CASE h.kind = "throw"  ->
                 [sendChunk([w |-> w1, t |-> t], None, Some(h.message), TRUE).w
                     EXCEPT !.transfers[k].done = "errored"]
          [] h.kind = "none"   ->
                 [sendChunk([w |-> w1, t |-> t], None,
                      Some("handler did not provide data via info.resource field"), TRUE).w
                     EXCEPT !.transfers[k].done = "errored"]
          [] h.kind = "buffer" ->
                 [sendBufferAsChunks([w |-> w1, t |-> t], h.data, ChunkSize).w
                     EXCEPT !.transfers[k].done = "ended"]
          [] h.kind = "stream" ->
                 [w1 EXCEPT !.jobs = @ \cup {[t EXCEPT !.phase = "stream", !.rest = h.data]}]

(* a source Readable emits "readable" with data to read *)
streamReadable(w, j) ==
    LET x == streamRead([w |-> [w EXCEPT !.jobs = @ \ {j}], t |-> j], ChunkSize)
    IN  [x.w EXCEPT !.jobs = @ \cup {x.t}]

(* an "end" listener that calls onEnd without sending the final chunk *)
streamEnded_NoFinal(w, j) ==
    [w EXCEPT !.jobs = @ \ {j},
              !.transfers[<<j.peer, j.id>>].done = "ended",
              !.transfers[<<j.peer, j.id>>].outcome =
                  IF j.kind = "push" THEN "resolved" ELSE @]

(* a source Readable emits "end": onEnd resolves the push() *)
streamEnded(w, j) ==
    LET x == streamEnd([w |-> [w EXCEPT !.jobs = @ \ {j}], t |-> j])
    IN  [x.w EXCEPT !.transfers[<<j.peer, j.id>>].done = "ended",
                    !.transfers[<<j.peer, j.id>>].outcome =
                        IF j.kind = "push" THEN "resolved" ELSE @]

(* a source Readable emits "error": onError rejects the push(), and sends  *)
(* the error chunk of the fetch request handler                            *)
streamErrored(w, j, message) ==
    LET x == streamError([w |-> [w EXCEPT !.jobs = @ \ {j}], t |-> j], message)
        x1 == [x EXCEPT !.w.transfers[<<j.peer, j.id>>].done = "errored"]
    IN  IF j.kind = "push"
        THEN [x1.w EXCEPT !.transfers[<<j.peer, j.id>>].outcome = "rejected"]
        ELSE sendChunk(x1, None, Some(message), TRUE).w

(* provision: the four broker subscribes are issued, the handler is stored *)
(* once they are acknowledged                                              *)
provisionStart(w, p, resource) ==
    LET me == w.peers[p]
        topics == << topicMake(resource, "resource-transfer-request", None),
                     topicMake(resource, "resource-transfer-request", Some(me.id)),
                     topicMake(resource, "resource-transfer-response", None),
                     topicMake(resource, "resource-transfer-response", Some(me.id)) >>
        w0 == [w EXCEPT !.target = Some(Handle("provision", p, resource, 0))]
        w1 == Issue(Issue(Issue(Issue(w0, OpSubscribe(me.mqtt, topics[1])),
                  OpSubscribe(me.mqtt, topics[2])), OpSubscribe(me.mqtt, topics[3])),
                  OpSubscribe(me.mqtt, topics[4]))
    IN  IF resource \in me.provisionings
        THEN Throw(w0, "provision: resource \"" \o resource \o "\" already provisioned")
        ELSE [w1 EXCEPT !.jobs = @ \cup {[kind |-> "provision", peer |-> p, name |-> resource]}]

provisionDone(w, j) ==
    LET k == NextHandle(w.handles, "provision", j.peer, j.name)
    IN  [w EXCEPT !.jobs = @ \ {j},
                  !.target = Some(k),
                  !.handles = HandleSet(@, k),
                  !.peers[j.peer].provisionings = @ \cup {j.name}]

(* an unprovision() that leaves the response topics subscribed *)
unprovision_RequestsOnly(w, k, fail) ==
    LET me == w.peers[k.peer]
        topics == << topicMake(k.name, "resource-transfer-request", None),
                     topicMake(k.name, "resource-transfer-request", Some(me.id)) >>
        w0 == [w EXCEPT !.target = Some(k)]
        w1 == [w0 EXCEPT !.peers[k.peer].provisionings = @ \ {k.name},
                         !.handles = HandleDelete(@, k)]
        w2 == _unsubscribeTopic(_unsubscribeTopic(
                  w1, me.mqtt, topics[1], fail), me.mqtt, topics[2], fail)
    IN  IF k.name \notin me.provisionings
        THEN Throw(w0, "unprovision: resource \"" \o k.name \o "\" not provisioned")
        ELSE [w2 EXCEPT !.jobs = @ \cup
                 {[kind |-> "teardown", peer |-> k.peer, handle |-> k, fail |-> fail]}]

(* Provisioning.unprovision() of handle k *)
unprovision(w, k, fail) ==
    LET me == w.peers[k.peer]
        topics == << topicMake(k.name, "resource-transfer-request", None),
                     topicMake(k.name, "resource-transfer-request", Some(me.id)),
                     topicMake(k.name, "resource-transfer-response", None),
                     topicMake(k.name, "resource-transfer-response", Some(me.id)) >>
        w0 == [w EXCEPT !.target = Some(k)]
        w1 == [w0 EXCEPT !.peers[k.peer].provisionings = @ \ {k.name},
                         !.handles = HandleDelete(@, k)]
        w2 == _unsubscribeTopic(_unsubscribeTopic(_unsubscribeTopic(_unsubscribeTopic(
                  w1, me.mqtt, topics[1], fail), me.mqtt, topics[2], fail),
                  me.mqtt, topics[3], fail), me.mqtt, topics[4], fail)
    IN  IF k.name \notin me.provisionings
        THEN Throw(w0, "unprovision: resource \"" \o k.name \o "\" not provisioned")
        ELSE [w2 EXCEPT !.jobs = @ \cup
                 {[kind |-> "teardown", peer |-> k.peer, handle |-> k, fail |-> fail]}]

(* the trait chain: each _dispatchMessage first calls super._dispatchMessage *)
_dispatchMessage(w, p, topic, parsed) ==
    ResourceDispatch(ServiceDispatch(EventDispatch(w, p, topic, parsed), p, topic, parsed),
                     p, topic, parsed)

(* the payloads codec.decode or msg.parse throws for: bytes that are not   *)
(* CBOR, a decoded value that is not an object, an object whose type is    *)
(* none of the envelope types; None for the payload of an envelope         *)
EnvelopeTypes ==
    {"event-emission", "stream-transfer", "service-call-request", "service-call-response",
     "resource-transfer-request", "resource-transfer-response"}

parseFailure(message) ==
    CASE message.type = "undecodable"    -> Some("failed to decode CBOR format")
      [] message.type = "not-an-object"  -> Some("invalid argument: not an object")
      [] message.type \notin EnvelopeTypes -> Some("invalid object: not of any known type")
      [] OTHER -> None

(* an _onMessage that dispatches whatever it was given *)
_onMessage_NoCatch(w, p, topic, message) ==
    _dispatchMessage(w, p, topic, message)

(* BaseTrait._onMessage: decode, parse, dispatch *)
_onMessage(w, p, topic, message) ==
    LET failure == parseFailure(message)
    IN  IF IsSome(failure)
        THEN [w EXCEPT !.errors[w.peers[p].mqtt] =
                 Append(@, "failed to parse message: " \o Get(failure))]
        ELSE _dispatchMessage(w, p, topic, message)

(* a destroy() that leaves the listeners installed *)
destroy_KeepListeners(w, p) == w

(* BaseTrait.destroy: this.mqtt.removeAllListeners() removes the listeners *)
(* of every peer constructed with the MQTT client                          *)
destroy(w, p) ==
    [w EXCEPT !.peers = [q \in Peers |->
        IF w.peers[q].mqtt = w.peers[p].mqtt
        THEN [w.peers[q] EXCEPT !.listening = FALSE]
        ELSE w.peers[q]]]

(* the client emits "message": its listeners run in registration order *)
RECURSIVE EmitMessage(_, _, _, _, _)
EmitMessage(w, client, order, topic, message) ==
    IF order = <<>> THEN w
    ELSE LET p  == Head(order)
             w1 == IF w.peers[p].mqtt = client /\ w.peers[p].listening
                   THEN _onMessage(w, p, topic, message) ELSE w
         IN  EmitMessage(w1, client, Tail(order), topic, message)

(* subscribe/register: the broker subscribes are issued, the handler is    *)
(* stored once both are acknowledged                                       *)
registerStart(w, p, service) ==
    LET me     == w.peers[p]
        topicB == topicMake(service, "service-call-request", None)
        topicD == topicMake(service, "service-call-request", Some(me.id))
        w0     == [w EXCEPT !.target = Some(Handle("register", p, service, 0))]
        w1     == Issue(Issue(w0, OpSubscribe(me.mqtt, topicB)), OpSubscribe(me.mqtt, topicD))
    IN  IF service \in me.registrations
        THEN Throw(w0, "register: service \"" \o service \o "\" already registered")
        ELSE [w1 EXCEPT !.jobs = @ \cup {[kind |-> "register", peer |-> p, name |-> service]}]

registerDone(w, j) ==
    LET k == NextHandle(w.handles, "register", j.peer, j.name)
    IN  [w EXCEPT !.jobs = @ \ {j},
                  !.target = Some(k),
                  !.handles = HandleSet(@, k),
                  !.peers[j.peer].registrations = @ \cup {j.name}]

(* Registration.unregister() of handle k *)
unregister(w, k, fail) ==
    LET me     == w.peers[k.peer]
        topicB == topicMake(k.name, "service-call-request", None)
        topicD == topicMake(k.name, "service-call-request", Some(me.id))
        w0     == [w EXCEPT !.target = Some(k)]
        w1     == [w0 EXCEPT !.peers[k.peer].registrations = @ \ {k.name},
                             !.handles = HandleDelete(@, k)]
        w2     == _unsubscribeTopic(_unsubscribeTopic(w1, me.mqtt, topicB, fail),
                                    me.mqtt, topicD, fail)
    IN  IF k.name \notin me.registrations
        THEN Throw(w0, "unregister: service \"" \o k.name \o "\" not registered")
        ELSE [w2 EXCEPT !.jobs = @ \cup
                 {[kind |-> "teardown", peer |-> k.peer, handle |-> k, fail |-> fail]}]

(* the topics subscribe (two), register (two) and provision (four) pass to *)
(* Promise.all, in the order of the code                                   *)
AttachTopics(j) ==
    LET ops == CASE j.kind = "subscribe" -> <<"event-emission">>
                 [] j.kind = "register"  -> <<"service-call-request">>
                 [] j.kind = "provision" -> <<"resource-transfer-request",
                                              "resource-transfer-response">>
    IN  [i \in 1..(2 * Len(ops)) |->
            topicMake(j.name, ops[(i + 1) \div 2],
                      IF i % 2 = 1 THEN None ELSE Some(j.peer))]

RECURSIVE unsubscribeAll(_, _, _, _)
unsubscribeAll(w, client, topics, fail) ==
    IF topics = <<>> THEN w
    ELSE unsubscribeAll(_unsubscribeTopic(w, client, Head(topics), fail),
                        client, Tail(topics), fail)

(* a catch that rethrows without unsubscribing *)
subscribeFailed_NoUnsubscribe(w, j, err, fail) ==
    Throw([w EXCEPT !.jobs = @ \ {j},
                    !.target = Some(Handle(j.kind, j.peer, j.name, 0))], err)

(* the catch of Promise.all in subscribe, register and provision: one of   *)
(* the broker subscribes was refused with err; every topic is unsubscribed *)
(* (a failure of that is swallowed) and err is thrown again, so the        *)
(* handler is not stored                                                   *)
subscribeFailed(w, j, err, fail) ==
    LET w1 == [w EXCEPT !.jobs = @ \ {j},
                        !.target = Some(Handle(j.kind, j.peer, j.name, 0))]
    IN  Throw(unsubscribeAll(w1, w.peers[j.peer].mqtt, AttachTopics(j), fail), err)

----------------------------------------------------------------------------
(* Turns *)

World ==
    [peers |-> peers, calls |-> calls, fetches |-> fetches, transfers |-> transfers,
     streams |-> streams, pushed |-> pushed, armed |-> armed, jobs |-> jobs,
     handles |-> handles, errors |-> errors, nextId |-> nextId,
     ops |-> <<>>, invoked |-> {}, thrown |-> None, target |-> None,
     returned |-> None]

(* the end of a turn: the state is stored, the MQTT client calls reach the *)
(* broker in the order they were issued                                    *)
Turn(w, box, act, p, id) ==
    LET b == BrokerApply(brokerSubs, box, w.ops)
    IN  /\ peers'  = w.peers
        /\ calls'  = w.calls
        /\ fetches' = w.fetches
        /\ transfers' = w.transfers
        /\ streams' = w.streams
        /\ pushed' = w.pushed
        /\ armed'  = w.armed
        /\ jobs'   = w.jobs
        /\ handles' = w.handles
        /\ errors' = w.errors
        /\ nextId' = w.nextId
        /\ brokerSubs' = b.subs
        /\ inbox'  = b.box
        /\ step'   = [act |-> act, peer |-> p, id |-> id,
                      ops |-> w.ops, invoked |-> w.invoked,
                      thrown |-> w.thrown, target |-> w.target,
                      returned |-> w.returned]

Commit(w, act, p, id) == Turn(w, inbox, act, p, id)

(* the state after the peers were constructed with their MQTT clients *)
Constructed(clientOf) ==
    /\ peers = [p \in Peers |-> NewPeer(p, clientOf[p])]
    /\ calls = EmptyMap
    /\ fetches = EmptyMap
    /\ transfers = EmptyMap
    /\ streams = <<>>
    /\ pushed = <<>>
    /\ armed = {}
    /\ jobs = {}
    /\ handles = EmptyMap
    /\ brokerSubs = [c \in Clients |-> {}]
    /\ inbox = [c \in Clients |-> <<>>]
    /\ errors = [c \in Clients |-> <<>>]
    /\ nextId = 1
    /\ step = [act |-> "init", peer |-> "", id |-> 0, ops |-> <<>>, invoked |-> {},
               thrown |-> None, target |-> None, returned |-> None]

Register(p, s) ==
    /\ s \notin peers[p].registrations
    /\ [kind |-> "register", peer |-> p, name |-> s] \notin jobs
    /\ Commit(registerStart(World, p, s), "registerStart", p, 0)

Registered(j) ==
    /\ j.kind = "register"
    /\ Commit(registerDone(World, j), "registerDone", j.peer, 0)

Call(p, s, params, receiver, pub) ==
    /\ nextId <= MaxOps
    /\ Commit(call(World, p, s, params, receiver, pub), "call", p, nextId)

CallTimeout(rid) ==
    /\ calls[rid].timer = "armed"
    /\ Commit(callTimeout(World, rid), "callTimeout", calls[rid].peer, rid)

CallPublishFailed(rid) ==
    /\ calls[rid].publishError
    /\ Commit(callPublishFailed(World, rid, "publish failed"),
              "callPublishFailed", calls[rid].peer, rid)

ServiceRespond(j) ==
    /\ j.kind = "service"
    /\ Commit(serviceRespond(World, j), "serviceRespond", j.peer, j.id)

Deliver(c) ==
    /\ inbox[c] /= <<>>
    /\ LET e == Head(inbox[c])
       IN  Turn(EmitMessage(World, c, PeerOrder, e.topic, e.msg),
                [inbox EXCEPT ![c] = Tail(@)], "deliver", c, e.msg.id)

Subscribe(p, e) ==
    /\ e \notin peers[p].subscriptions
    /\ [kind |-> "subscribe", peer |-> p, name |-> e] \notin jobs
    /\ Commit(subscribeStart(World, p, e), "subscribeStart", p, 0)

Subscribed(j) ==
    /\ j.kind = "subscribe"
    /\ Commit(subscribeDone(World, j), "subscribeDone", j.peer, 0)

(* subscribe/register/provision for a name that has a handler *)
SubscribeAgain(p, e) ==
    /\ e \in peers[p].subscriptions
    /\ Commit(subscribeStart(World, p, e), "subscribeStart", p, 0)

RegisterAgain(p, s) ==
    /\ s \in peers[p].registrations
    /\ Commit(registerStart(World, p, s), "registerStart", p, 0)

ProvisionAgain(p, r) ==
    /\ r \in peers[p].provisionings
    /\ Commit(provisionStart(World, p, r), "provisionStart", p, 0)

(* the teardown of a handle is called *)
Unsubscribe(k, fail) ==
    /\ k.kind = "subscribe"
    /\ Commit(unsubscribe(World, k, fail), "unsubscribe", k.peer, 0)

Unregister(k, fail) ==
    /\ k.kind = "register"
    /\ Commit(unregister(World, k, fail), "unregister", k.peer, 0)

Unprovision(k, fail) ==
    /\ k.kind = "provision"
    /\ Commit(unprovision(World, k, fail), "unprovision", k.peer, 0)

TornDown(j) ==
    /\ j.kind = "teardown"
    /\ Commit(teardownDone(World, j), "teardownDone", j.peer, 0)

Destroy(p) ==
    /\ peers[p].listening
    /\ Commit(destroy(World, p), "destroy", p, 0)

Emit(p, e, params, receiver) ==
    /\ nextId <= MaxOps
    /\ Commit(emit(World, p, e, params, receiver), "emit", p, nextId)

EmitConfig(p, config) ==
    /\ nextId <= MaxOps
    /\ Commit(emitConfig(World, p, config), "emitConfig", p, nextId)

(* the application constructs a further peer object *)
Construct(id, mqtt) ==
    Commit(construct(World, id, mqtt), "construct", id, 0)

(* a publisher that is no MQTT+ peer publishes a payload to a topic *)
ForeignPublish(topic, message) ==
    /\ nextId <= MaxOps
    /\ Commit(Issue([World EXCEPT !.nextId = @ + 1], OpPublish("foreign", topic, message)),
              "foreign", "", nextId)

EventRejected(j) ==
    /\ j.kind = "event"
    /\ Commit(eventRejected(World, j), "eventRejected", j.peer, j.id)

Provision(p, r) ==
    /\ r \notin peers[p].provisionings
    /\ [kind |-> "provision", peer |-> p, name |-> r] \notin jobs
    /\ Commit(provisionStart(World, p, r), "provisionStart", p, 0)

SubscribeFailed(j, fail) ==
    /\ j.kind \in {"subscribe", "register", "provision"}
    /\ Commit(subscribeFailed(World, j, "subscribe refused", fail),
              "subscribeFailed", j.peer, 0)

Provisioned(j) ==
    /\ j.kind = "provision"
    /\ Commit(provisionDone(World, j), "provisionDone", j.peer, 0)

Fetch(p, r, params, receiver) ==
    /\ nextId <= MaxOps
    /\ Commit(fetchStart(World, p, r, params, receiver), "fetch", p, nextId)

FetchSubscribed(rid) ==
    /\ fetches[rid].phase = "subscribing"
    /\ Commit(fetchSubscribed(World, rid), "fetchSubscribed", fetches[rid].peer, rid)

FetchTimeout(rid) ==
    /\ fetches[rid].timer = "armed"
    /\ Commit(fetchTimeout(World, rid), "fetchTimeout", fetches[rid].peer, rid)

ServeHandled(j, h) ==
    /\ j.kind = "serve"
    /\ j.phase = "handler"
    /\ Commit(serveHandled(World, j, h), "serveHandled", j.peer, j.id)

PushBuffer(p, r, buffer, meta, receiver) ==
    /\ nextId <= MaxOps
    /\ Commit(pushBuffer(World, p, r, buffer, None, meta, receiver), "push", p, nextId)

PushStream(p, r, data, meta, receiver) ==
    /\ nextId <= MaxOps
    /\ Commit(pushStream(World, p, r, data, None, meta, receiver), "push", p, nextId)

StreamReadable(j) ==
    /\ j.kind \in {"push", "serve"}
    /\ j.phase = "stream"
    /\ j.rest /= <<>>
    /\ Commit(streamReadable(World, j), "streamReadable", j.peer, j.id)

StreamEnded(j) ==
    /\ j.kind \in {"push", "serve"}
    /\ j.phase = "stream"
    /\ j.rest = <<>>
    /\ Commit(streamEnded(World, j), "streamEnded", j.peer, j.id)

StreamErrored(j) ==
    /\ j.kind \in {"push", "serve"}
    /\ j.phase = "stream"
    /\ Commit(streamErrored(World, j, "read failed"), "streamErrored", j.peer, j.id)

PushTimeout(tm) ==
    /\ tm \in armed
    /\ Commit(pushTimeout(World, tm), "pushTimeout", tm.peer, tm.id)

----------------------------------------------------------------------------
(* Service calls: the callers A and B share one MQTT client, the           *)
(* registrant C has its own.  The k-th call passes its own argument.       *)

InitService == Constructed([p \in Peers |-> IF p = "C" THEN "m2" ELSE "m1"])

(* the calls the application makes: a successful one and a failing one by  *)
(* A, one whose publish the transport reports as failed, and one by B      *)
(* directed at C                                                           *)
CallInputs(rid) ==
    LET own == <<"p" \o ToString(rid)>>
    IN  { [peer |-> "A", params |-> own,       receiver |-> None,      pub |-> "ok"],
          [peer |-> "A", params |-> <<"bad">>, receiver |-> None,      pub |-> "ok"],
          [peer |-> "A", params |-> own,       receiver |-> None,      pub |-> "sent"],
          [peer |-> "B", params |-> own,       receiver |-> Some("C"), pub |-> "ok"] }

NextService ==
    \/ Register("C", "s1")
    \/ \E j \in jobs : Registered(j)
    \/ \E i \in CallInputs(nextId) : Call(i.peer, "s1", i.params, i.receiver, i.pub)
    \/ \E rid \in DOMAIN calls : CallTimeout(rid)
    \/ \E rid \in DOMAIN calls : CallPublishFailed(rid)
    \/ \E j \in jobs : ServiceRespond(j)
    \/ \E c \in Clients : Deliver(c)

SpecService == InitService /\ [][NextService]_vars

SpecServiceFair ==
    /\ SpecService
    /\ \A rid \in 1..MaxOps : WF_vars(rid \in DOMAIN calls /\ CallTimeout(rid))

(* what a call can end with: the handler's return value for its own        *)
(* parameters, the error of a response to it, the timeout, a publish error *)
CallOutcomes(c) ==
    LET h == ServiceHandler(c.params)
    IN  (IF h.ok THEN {[kind |-> "resolved", value |-> h.value]}
         ELSE {[kind |-> "rejected", value |-> h.value]})
        \cup {[kind |-> "rejected", value |-> "method not found: " \o c.service],
              [kind |-> "rejected", value |-> "communication timeout"],
              [kind |-> "rejected", value |-> "publish failed"]}

C1_OwnResult ==
    \A rid \in DOMAIN calls :
        IsSome(calls[rid].outcome) => Get(calls[rid].outcome) \in CallOutcomes(calls[rid])

C1_OnlyOwnEntry ==
    step'.act = "deliver" =>
        \A rid \in DOMAIN calls : rid /= step'.id =>
            /\ calls'[rid] = calls[rid]
            /\ \A p \in Peers : MapHas(peers'[p].responseCallback, rid)
                                 <=> MapHas(peers[p].responseCallback, rid)

(* C1: with several call()s of one peer in flight on the same service,     *)
(* each given its own argument, every call that resolves does so with the  *)
(* value the handler computed from that call's own parameters (and one     *)
(* that rejects with an error of its own request), and the delivery of a   *)
(* response with id r touches the pending entry r and no other             *)
C1_Correlation == []C1_OwnResult /\ [][C1_OnlyOwnEntry]_vars

(* the response of the second call arrives while the first call of the     *)
(* same peer is still in flight, and resolves the second with its value    *)
C1_Witness ==
    /\ step.act = "deliver" /\ step.id = 2
    /\ DOMAIN calls = {1, 2}
    /\ calls[1].peer = calls[2].peer
    /\ calls[1].outcome = None
    /\ calls[1].params /= calls[2].params
    /\ calls[2].outcome = Some([kind |-> "resolved", value |-> "p2:42"])

C2_Outcomes ==
    \A rid \in DOMAIN calls :
        LET c == calls[rid]
        IN  /\ c.settles <= 1
            /\ (c.settles = 1) <=> IsSome(c.outcome)
            /\ IsSome(c.outcome) => Get(c.outcome) \in CallOutcomes(c)
            /\ IsSome(c.outcome) <=> ~MapHas(peers[c.peer].responseCallback, rid)
            /\ IsSome(c.outcome) <=> (c.timer = "null")

C2_Stable ==
    \A rid \in DOMAIN calls :
        IsSome(calls[rid].outcome) =>
            /\ calls'[rid].outcome = calls[rid].outcome
            /\ calls'[rid].settles = calls[rid].settles
            /\ (step'.id = rid /\ step'.act \in {"deliver", "callTimeout", "callPublishFailed"})
                 => (peers' = peers /\ step'.ops = <<>>)

C2_Eventually ==
    \A rid \in 1..MaxOps :
        [](rid \in DOMAIN calls => <>(rid \in DOMAIN calls /\ IsSome(calls[rid].outcome)))

(* C2: every call settles exactly once, with the handler's return value,   *)
(* the error of an error response, the timeout error "communication        *)
(* timeout" or the publish error; once it has settled, a response, a timer *)
(* expiry or a publish callback for its id changes neither the outcome nor *)
(* the tables of the peer                                                  *)
C2_SettlesOnce == []C2_Outcomes /\ [][C2_Stable]_vars /\ C2_Eventually

(* a response reaches the caller after its call has timed out *)
C2_Witness ==
    /\ step.act = "deliver" /\ step.peer = "m1"
    /\ step.id \in DOMAIN calls
    /\ calls[step.id].outcome = Some([kind |-> "rejected", value |-> "communication timeout"])
    /\ calls[step.id].settles = 1

ResponseTopic(t) == t.op = "service-call-response"

Refcount(ps, p, t) ==
    IF MapHas(ps[p].responseSubscriptions, t) THEN ps[p].responseSubscriptions[t] ELSE 0

C5_Issued ==
    \A i \in 1..Len(step'.ops) :
        LET o == step'.ops[i]
            p == o.topic.seg
        IN  ResponseTopic(o.topic) =>
              /\ o.op = "subscribe" =>
                   /\ ~MapHas(peers[p].responseSubscriptions, o.topic)
                   /\ Refcount(peers', p, o.topic) = 1
              /\ o.op = "unsubscribe" =>
                   /\ Refcount(peers, p, o.topic) = 1
                   /\ ~MapHas(peers'[p].responseSubscriptions, o.topic)

C5_Response ==
    (step'.act = "deliver" /\ Head(inbox[step'.peer]).msg.type = "service-call-response") =>
        LET e  == Head(inbox[step'.peer])
            id == e.msg.id
        IN  \A p \in Peers :
                IF /\ peers[p].mqtt = step'.peer
                   /\ e.topic.seg = p
                   /\ MapHas(peers[p].responseCallback, id)
                THEN /\ calls'[id].settles = calls[id].settles + 1
                     /\ ~MapHas(peers'[p].responseCallback, id)
                     /\ Refcount(peers', p, e.topic) = Refcount(peers, p, e.topic) - 1
                ELSE /\ peers'[p] = peers[p]
                     /\ \A rid \in DOMAIN calls : calls[rid].peer = p => calls'[rid] = calls[rid]

(* C5: for service calls a subscribe of the response topic is issued only  *)
(* when its refcount goes from absent to 1 and an unsubscribe only when it *)
(* drops to 0; a response on the peer's own directed topic whose id is     *)
(* pending invokes the continuation, removes the entry and lowers the      *)
(* refcount by exactly one; a response with an unknown id, or on a topic   *)
(* with another peer's id, changes nothing of the peer                     *)
C5_Refcount == [][C5_Issued /\ C5_Response]_vars

(* a response is processed while another call keeps the topic subscribed,  *)
(* in a turn in which the other peer of the client saw the message too     *)
C5_Witness ==
    /\ step.act = "deliver" /\ step.peer = "m1" /\ step.ops = <<>>
    /\ step.id \in DOMAIN calls
    /\ calls[step.id].peer = "A"
    /\ calls[step.id].settles = 1
    /\ Refcount(peers, "A", topicMake("s1", "service-call-response", Some("A"))) = 1
    /\ ~MapHas(peers["A"].responseCallback, step.id)

----------------------------------------------------------------------------
(* Resource transfers: A fetches from and pushes to the provisioner C; B   *)
(* shares the MQTT client of A.                                            *)

Bytes(n) == [i \in 1..n |-> i]

Metas == {None, Some("m")}

(* what the provisioner's handler does on a fetch: it provides a Buffer or *)
(* a Readable (empty, exactly one chunk, or more than one chunk; with or   *)
(* without info.meta), throws, or leaves info.resource null                *)
ServeInputs ==
    { [kind |-> "buffer", data |-> Bytes(0),         meta |-> None,      message |-> ""],
      [kind |-> "buffer", data |-> Bytes(ChunkSize), meta |-> None,      message |-> ""],
      [kind |-> "buffer", data |-> Bytes(MaxLen),    meta |-> Some("m"), message |-> ""],
      [kind |-> "stream", data |-> Bytes(0),         meta |-> Some("m"), message |-> ""],
      [kind |-> "stream", data |-> Bytes(MaxLen),    meta |-> None,      message |-> ""],
      [kind |-> "throw",  data |-> <<>>,             meta |-> None,      message |-> "no such file"],
      [kind |-> "throw",  data |-> <<>>,             meta |-> None,      message |-> ""],
      [kind |-> "none",   data |-> <<>>,             meta |-> None,      message |-> ""] }

InitResource == Constructed([p \in Peers |-> IF p = "C" THEN "m2" ELSE "m1"])

NextFetch ==
    \/ Provision("C", "r1")
    \/ \E j \in jobs : Provisioned(j)
    \/ Fetch("A", "r1", None, None)
    \/ \E rid \in DOMAIN fetches : FetchSubscribed(rid)
    \/ \E rid \in DOMAIN fetches : FetchTimeout(rid)
    \/ \E j \in jobs, h \in ServeInputs : ServeHandled(j, h)
    \/ \E j \in jobs : StreamReadable(j)
    \/ \E j \in jobs : StreamEnded(j)
    \/ \E j \in jobs : StreamErrored(j)
    \/ \E c \in Clients : Deliver(c)

SpecFetch == InitResource /\ [][NextFetch]_vars

(* pushes of every length up to MaxLen, from a Buffer and from a Readable, *)
(* made once the provisioner's provision() has resolved                    *)
NextPush ==
    \/ Provision("C", "r1")
    \/ \E j \in jobs : Provisioned(j)
    \/ /\ nextId <= MaxPushes
       /\ "r1" \in peers["C"].provisionings
       /\ \E n \in 0..MaxLen, m \in Metas : PushBuffer("A", "r1", Bytes(n), m, Some("C"))
    \/ /\ nextId <= MaxPushes
       /\ "r1" \in peers["C"].provisionings
       /\ \E n \in 0..MaxLen, m \in Metas : PushStream("A", "r1", Bytes(n), m, None)
    \/ \E j \in jobs : StreamReadable(j)
    \/ \E j \in jobs : StreamEnded(j)
    \/ \E j \in jobs : StreamErrored(j)
    \/ \E tm \in armed : PushTimeout(tm)
    \/ \E c \in Clients : Deliver(c)

SpecPush == InitResource /\ [][NextPush]_vars

----------------------------------------------------------------------------
(* Calls and fetches of one peer side by side: A calls the service and     *)
(* fetches the resource of C, which may not have registered or provisioned *)
(* yet.                                                                    *)

NextMixed ==
    \/ Register("C", "s1")
    \/ \E j \in jobs : Registered(j)
    \/ Provision("C", "r1")
    \/ \E j \in jobs : Provisioned(j)
    \/ \E i \in CallInputs(nextId) : Call(i.peer, "s1", i.params, i.receiver, i.pub)
    \/ \E rid \in DOMAIN calls : CallTimeout(rid)
    \/ \E rid \in DOMAIN calls : CallPublishFailed(rid)
    \/ \E j \in jobs : ServiceRespond(j)
    \/ Fetch("A", "r1", None, None)
    \/ \E rid \in DOMAIN fetches : FetchSubscribed(rid)
    \/ \E rid \in DOMAIN fetches : FetchTimeout(rid)
    \/ \E j \in jobs, h \in ServeInputs : ServeHandled(j, h)
    \/ \E j \in jobs : StreamReadable(j)
    \/ \E j \in jobs : StreamEnded(j)
    \/ \E j \in jobs : StreamErrored(j)
    \/ \E c \in Clients : Deliver(c)

SpecMixed == InitResource /\ [][NextMixed]_vars

TimeoutError == "communication timeout"

Issued(ops, kind, topic) ==
    \E i \in 1..Len(ops) : ops[i].op = kind /\ ops[i].topic = topic

C3_Call ==
    step'.act = "callTimeout" =>
        LET rid == step'.id
            c   == calls[rid]
            t   == topicMake(c.service, "service-call-response", Some(c.peer))
        IN  /\ calls'[rid].outcome = Some([kind |-> "rejected", value |-> TimeoutError])
            /\ ~MapHas(peers'[c.peer].responseCallback, rid)
            /\ Refcount(peers', c.peer, t) = Refcount(peers, c.peer, t) - 1
            /\ Refcount(peers', c.peer, t) = 0 =>
                  Issued(step'.ops, "unsubscribe", t)

C3_Fetch ==
    step'.act = "fetchTimeout" =>
        LET rid == step'.id
            f   == fetches'[rid]
        IN  /\ f.stream.state = "destroyed"
            /\ f.stream.error = Some(TimeoutError)
            /\ streamToBuffer(f.stream).state = "rejected"
            /\ streamToBuffer(f.stream).error = Some(TimeoutError)
            /\ f.timer = "null"
            /\ ~MapHas(peers'[f.peer].callbacks, rid)
            /\ Issued(step'.ops, "unsubscribe", f.responseTopic)

(* C3: when the timer of a call or of a fetch expires, the operation       *)
(* completes with the error "communication timeout" (the call rejects; the *)
(* stream of the fetch is destroyed with it and its buffer rejects), its   *)
(* pending entry is removed and so is its share of the response-topic      *)
(* subscription; the same holds for a fetch of a resource nobody provides  *)
C3_Timeout == [][C3_Call /\ C3_Fetch]_vars

(* a fetch of a resource that was never provisioned has timed out, after a *)
(* call has timed out too                                                  *)
C3_Witness ==
    /\ step.act = "fetchTimeout"
    /\ fetches[step.id].stream.error = Some(TimeoutError)
    /\ peers["C"].provisionings = {}
    /\ \A j \in jobs : j.kind /= "provision"
    /\ \E rid \in DOMAIN calls :
          calls[rid].outcome = Some([kind |-> "rejected", value |-> TimeoutError])

InFlight(T) ==
    \/ \E rid \in DOMAIN calls :
          /\ calls[rid].outcome = None
          /\ topicMake(calls[rid].service, "service-call-response", Some(calls[rid].peer)) = T
    \/ \E rid \in DOMAIN fetches :
          /\ fetches[rid].timer = "armed"
          /\ fetches[rid].responseTopic = T

(* C4: while a call or a fetch is in flight, no unsubscribe of its         *)
(* response topic is issued, also when another call or fetch on the same   *)
(* endpoint completes first                                                *)
C4_SubscriptionStays ==
    \A i \in 1..Len(step.ops) :
        step.ops[i].op = "unsubscribe" => ~InFlight(step.ops[i].topic)

(* the bytes the sending side of transfer id handed over, whoever sent it *)
SourceOf(id) ==
    {transfers[k].data : k \in {x \in DOMAIN transfers : x[2] = id}}

C7_Fetch ==
    \A rid \in DOMAIN fetches :
        fetches[rid].stream.state = "ended" =>
            /\ SourceOf(rid) = {fetches[rid].stream.data}
            /\ streamToBuffer(fetches[rid].stream).value = fetches[rid].stream.data

C7_Push ==
    \A i \in 1..Len(pushed) :
        streams[pushed[i].stream].state = "ended" =>
            /\ SourceOf(pushed[i].id) = {streams[pushed[i].stream].data}
            /\ streamToBuffer(streams[pushed[i].stream]).value = streams[pushed[i].stream].data

(* C7: for a push or a fetch of the bytes B, from a Buffer or a Readable   *)
(* and of any length (0 and the multiples of the chunk size included),     *)
(* when the receiving stream closes normally the aggregated buffer is B    *)
C7_Integrity == C7_Fetch /\ C7_Push

Max(a, b) == IF a > b THEN a ELSE b

Ceil(a, b) == (a + b - 1) \div b

(* C8 as stated: a transfer of the bytes B that ran to its end published   *)
(* max(1, ceil(|B|/chunkSize)) chunk envelopes, from a Buffer or a Readable *)
C8_Count ==
    \A k \in DOMAIN transfers :
        transfers[k].done = "ended" =>
            transfers[k].sent = Max(1, Ceil(Len(transfers[k].data), ChunkSize))

(* C8: a transfer of the bytes B that ran to its end published             *)
(* max(1, ceil(|B|/chunkSize)) chunk envelopes when the source is a        *)
(* Buffer, and ceil(|B|/chunkSize) + 1 when it is a Readable: one per read *)
(* and the empty final one on "end"                                        *)
C8_CountBySource ==
    \A k \in DOMAIN transfers :
        transfers[k].done = "ended" =>
            transfers[k].sent =
                IF transfers[k].source = "stream"
                THEN Ceil(Len(transfers[k].data), ChunkSize) + 1
                ELSE Max(1, Ceil(Len(transfers[k].data), ChunkSize))

(* a Readable of exactly one chunk size was pushed to its end *)
C8_Witness ==
    \E k \in DOMAIN transfers :
        /\ transfers[k].source = "stream"
        /\ transfers[k].done = "ended"
        /\ Len(transfers[k].data) = ChunkSize
        /\ transfers[k].sent = 2

(* the meta the sending side of transfer id supplied *)
MetaOf(id) ==
    {transfers[k].meta : k \in {x \in DOMAIN transfers : x[2] = id}}

C9_Observed ==
    /\ \A i \in 1..Len(pushed) : MetaOf(pushed[i].id) = {pushed[i].meta}
    /\ \A rid \in DOMAIN fetches :
          ~fetches[rid].firstChunk => {Get(fetches[rid].meta)} = MetaOf(rid)

Responses(ops) ==
    {i \in 1..Len(ops) : /\ ops[i].op = "publish"
                         /\ Get(ops[i].msg).type = "resource-transfer-response"}

C9_FirstOnly ==
    \A i \in Responses(step'.ops) :
        LET m == Get(step'.ops[i].msg)
            k == <<Get(m.sender), m.id>>
            before == (IF k \in DOMAIN transfers THEN transfers[k].sent ELSE 0)
                      + Cardinality({j \in Responses(step'.ops) :
                                        j < i /\ Get(step'.ops[j].msg).id = m.id})
        IN  m.meta = IF before = 0 THEN transfers'[k].meta ELSE None

(* C9: if the sender of a transfer supplied the meta M (push: the meta     *)
(* argument; fetch: info.meta of the provisioner), the receiver observes M *)
(* (fetch: the meta promise resolves to M; push: info.meta is M), and it   *)
(* observes none otherwise; only the first envelope of a transfer carries  *)
(* the meta                                                                *)
C9_Meta == []C9_Observed /\ [][C9_FirstOnly]_vars

FetchState(f) ==
    IF f.phase = "subscribing" THEN "idle"
    ELSE IF f.timer = "armed"
    THEN (IF f.firstChunk THEN "awaiting-first-chunk" ELSE "streaming")
    ELSE IF f.stream.state = "ended" THEN "closed"
    ELSE IF f.stream.error = Some(TimeoutError) THEN "timed-out"
    ELSE "errored"

Terminal == {"closed", "errored", "timed-out"}

FetchEdges ==
    {<<"idle", "awaiting-first-chunk">>, <<"awaiting-first-chunk", "streaming">>}
    \cup ({"awaiting-first-chunk", "streaming"} \X Terminal)

C10_State ==
    \A rid \in DOMAIN fetches :
        LET f == fetches[rid]
        IN  /\ FetchState(f) \in Terminal =>
                /\ ~MapHas(peers[f.peer].callbacks, rid)
                /\ f.timer = "null"
                /\ f.stream.state \in {"ended", "destroyed"}
                /\ IsSome(f.meta)
                /\ f.firstChunk => f.meta = Some(None)
            /\ FetchState(f) \in {"awaiting-first-chunk", "streaming"} =>
                /\ MapHas(peers[f.peer].callbacks, rid)
                /\ f.stream.state = "open"
            /\ FetchState(f) = "awaiting-first-chunk" => f.stream.data = <<>>

C10_Step ==
    \A rid \in DOMAIN fetches :
        LET f == fetches[rid]
            g == fetches'[rid]
        IN  /\ FetchState(f) /= FetchState(g) =>
                <<FetchState(f), FetchState(g)>> \in FetchEdges
            /\ FetchState(f) \in Terminal => g = f
            /\ (FetchState(g) = "closed" /\ FetchState(f) /= "closed") =>
                  /\ step'.act = "deliver"
                  /\ Head(inbox[step'.peer]).msg.final = Some(TRUE)
            /\ (FetchState(g) = "errored" /\ FetchState(f) /= "errored") =>
                  /\ step'.act = "deliver"
                  /\ IsSome(Head(inbox[step'.peer]).msg.error)
            /\ (FetchState(g) = "timed-out" /\ FetchState(f) /= "timed-out") =>
                  step'.act = "fetchTimeout"

C10_Eventually ==
    \A rid \in 1..MaxOps :
        [](rid \in DOMAIN fetches => <>(rid \in DOMAIN fetches
                                         /\ FetchState(fetches[rid]) \in Terminal))

Failed(rid) ==
    {k \in DOMAIN transfers : k[2] = rid /\ transfers[k].source \in {"throw", "none"}}

C11_NeverSuccess ==
    \A rid \in DOMAIN fetches :
        Failed(rid) /= {} =>
            /\ fetches[rid].stream.state /= "ended"
            /\ streamToBuffer(fetches[rid].stream).state /= "resolved"

C11_Destroyed ==
    (step'.act = "deliver" /\ Head(inbox[step'.peer]).msg.type = "resource-transfer-response") =>
        LET m == Head(inbox[step'.peer]).msg
        IN  \A p \in Peers :
                (/\ peers[p].mqtt = step'.peer
                 /\ MapHas(peers[p].callbacks, m.id)
                 /\ IsSome(m.error)) =>
                    /\ fetches'[m.id].stream.state = "destroyed"
                    /\ fetches'[m.id].stream.error = m.error
                    /\ streamToBuffer(fetches'[m.id].stream).state = "rejected"

(* C11: when the provisioner's handler for a fetch request throws or       *)
(* rejects, with any message (the empty one included), the error envelope  *)
(* that reaches the pending fetch destroys its stream with that message    *)
(* and its buffer rejects; the stream of such a fetch never ends normally  *)
C11_HandlerError == []C11_NeverSuccess /\ [][C11_Destroyed]_vars

----------------------------------------------------------------------------
(* The push stream of a provisioner *)

PushTimeoutError == "push stream timeout"

(* the timers set for push id of peer p that were not cleared *)
ArmedFor(a, p, id) == {tm \in a : tm.peer = p /\ tm.id = id}

C12_Entry ==
    /\ \A p \in Peers : \A id \in DOMAIN peers[p].pushStreams :
          /\ streams[peers[p].pushStreams[id]].state = "open"
          /\ MapHas(peers[p].pushTimers, id)
          /\ peers[p].pushTimers[id] \in armed
    /\ \A sid \in 1..Len(streams) :
          streams[sid].state = "open" =>
              \E p \in Peers : \E id \in DOMAIN peers[p].pushStreams :
                  peers[p].pushStreams[id] = sid

C12_Chunk ==
    (step'.act = "deliver" /\ Head(inbox[step'.peer]).msg.type = "resource-transfer-response") =>
        LET m == Head(inbox[step'.peer]).msg
        IN  \A p \in Peers :
              (/\ peers[p].mqtt = step'.peer
               /\ ~MapHas(peers[p].callbacks, m.id)
               /\ IsSome(m.name) /\ Get(m.name) \in peers[p].provisionings) =>
                 LET had == MapHas(peers[p].pushStreams, m.id)
                     sid == IF had THEN peers[p].pushStreams[m.id]
                            ELSE pushed'[Len(pushed')].stream
                     gone == /\ ~MapHas(peers'[p].pushStreams, m.id)
                             /\ ~MapHas(peers'[p].pushTimers, m.id)
                             /\ ArmedFor(armed', p, m.id) = {}
                 IN  /\ Len(pushed') = Len(pushed) + (IF had THEN 0 ELSE 1)
                     /\ ~had => /\ pushed'[Len(pushed')].id = m.id
                                 /\ sid = Len(streams) + 1
                     /\ IF IsSome(m.error)
                        THEN /\ gone
                             /\ streams'[sid].state = "destroyed"
                             /\ streams'[sid].error = m.error
                        ELSE IF m.final = Some(TRUE)
                        THEN /\ gone
                             /\ streams'[sid].state = "ended"
                             /\ streams'[sid].data =
                                   (IF had THEN streams[sid].data ELSE <<>>)
                                   \o (IF IsSome(m.chunk) THEN Get(m.chunk) ELSE <<>>)
                        ELSE /\ MapHas(peers'[p].pushStreams, m.id)
                             /\ peers'[p].pushStreams[m.id] = sid
                             /\ streams'[sid].state = "open"
                             /\ Cardinality(ArmedFor(armed', p, m.id)) = 1
                             /\ had => armed' = armed

C12_Expiry ==
    step'.act = "pushTimeout" =>
        \E tm \in armed :
            /\ tm.peer = step'.peer /\ tm.id = step'.id
            /\ tm \notin armed'
            /\ MapHas(peers[tm.peer].pushStreams, tm.id) =>
                  /\ streams'[peers[tm.peer].pushStreams[tm.id]].state = "destroyed"
                  /\ streams'[peers[tm.peer].pushStreams[tm.id]].error = Some(PushTimeoutError)
                  /\ ~MapHas(peers'[tm.peer].pushStreams, tm.id)
                  /\ ~MapHas(peers'[tm.peer].pushTimers, tm.id)

C12_OnlyThen ==
    (\E p \in Peers : peers'[p].pushStreams /= peers[p].pushStreams)
        => step'.act \in {"deliver", "pushTimeout"}

(* C12: a provisioner has a push-stream entry exactly while the stream of  *)
(* the push is open, and then its timer is armed; a chunk for an id        *)
(* without an entry creates the entry, the stream and the timer and        *)
(* invokes the handler; a final envelope ends the stream, clears the timer *)
(* and removes the entry; an error envelope destroys the stream with its   *)
(* message and removes the entry; the expiry of the timer destroys the     *)
(* stream with "push stream timeout" and removes the entry                 *)
C12_PushStream ==
    []C12_Entry /\ [][C12_Chunk /\ C12_Expiry /\ C12_OnlyThen]_vars

(* the final chunk of a push of more than one chunk has closed the stream  *)
(* its first chunk had opened                                              *)
C12_Witness ==
    /\ step.act = "deliver"
    /\ Len(streams) = 1
    /\ streams[1].state = "ended"
    /\ Len(streams[1].data) = MaxLen
    /\ peers["C"].pushStreams = EmptyMap
    /\ armed = {}

(* the envelopes of transfer k among the MQTT client calls of a turn *)
EnvelopesOf(ops, k) ==
    SelectSeq(ops, LAMBDA o : /\ o.op = "publish"
                              /\ Get(o.msg).type = "resource-transfer-response"
                              /\ Get(o.msg).sender = Some(k[1])
                              /\ Get(o.msg).id = k[2])

C13_Settle ==
    \A k \in DOMAIN transfers' :
        LET t    == transfers'[k]
            was  == IF k \in DOMAIN transfers THEN transfers[k].outcome ELSE "pending"
            sent == EnvelopesOf(step'.ops, k)
            last == Get(sent[Len(sent)].msg)
        IN  t.kind = "push" =>
              /\ (t.outcome = "resolved" /\ was = "pending") =>
                    /\ sent /= <<>>
                    /\ last.final = Some(TRUE) /\ last.error = None
                    /\ \A i \in 1..(Len(sent) - 1) : Get(sent[i].msg).final = Some(FALSE)
              /\ (t.outcome = "rejected" /\ was = "pending") =>
                    /\ t.source = "stream"
                    /\ Len(sent) = 1
                    /\ last.final = Some(TRUE) /\ last.chunk = None
                    /\ last.error = Some("read failed")
              /\ was /= "pending" =>
                    /\ sent = <<>>
                    /\ t = transfers[k]
              /\ (t.outcome = "pending" /\ sent /= <<>>) =>
                    \A i \in 1..Len(sent) : Get(sent[i].msg).final = Some(FALSE)

(* C13: push() resolves in the turn that hands the final=true envelope of  *)
(* the transfer to the transport, as the last one of the transfer; when    *)
(* the source stream errors it rejects in the turn that publishes the one  *)
(* final envelope with the error message; once push() has settled, no      *)
(* envelope of the transfer is published                                   *)
C13_PushResolves == [][C13_Settle]_vars

(* a pushed Readable of more than one chunk has ended and push() resolved *)
C13_Witness ==
    /\ step.act = "streamEnded"
    /\ \E k \in DOMAIN transfers :
          /\ transfers[k].kind = "push" /\ transfers[k].source = "stream"
          /\ transfers[k].outcome = "resolved"
          /\ Len(transfers[k].data) = MaxLen
          /\ transfers[k].sent = Ceil(MaxLen, ChunkSize) + 1

SpecFetchFair ==
    /\ SpecFetch
    /\ \A rid \in 1..MaxOps :
          /\ WF_vars(rid \in DOMAIN fetches /\ FetchSubscribed(rid))
          /\ WF_vars(rid \in DOMAIN fetches /\ FetchTimeout(rid))

----------------------------------------------------------------------------
(* Targeting: A and B are constructed on the same MQTT client and attach   *)
(* to the same event, service and resource; C, on its own client, emits,   *)
(* calls and fetches, with and without a receiver.                         *)

InitShared == Constructed([p \in Peers |-> IF p = "C" THEN "m2" ELSE "m1"])

Targets == {None, Some("A")}

NextShared ==
    \/ \E p \in {"A", "B"} : Subscribe(p, "e1")
    \/ \E j \in jobs : Subscribed(j)
    \/ \E p \in {"A", "B"} : Register(p, "s1")
    \/ \E j \in jobs : Registered(j)
    \/ \E p \in {"A", "B"} : Provision(p, "r1")
    \/ \E j \in jobs : Provisioned(j)
    \/ \E r \in Targets : Emit("C", "e1", Some(<<"x">>), r)
    \/ \E r \in Targets : Call("C", "s1", <<"x">>, r, "ok")
    \/ \E r \in Targets : Fetch("C", "r1", None, r)
    \/ \E rid \in DOMAIN fetches : FetchSubscribed(rid)
    \/ \E c \in Clients : Deliver(c)

SpecShared == InitShared /\ [][NextShared]_vars

(* C6: when an emit, a call or a fetch names a receiver R, only the peer   *)
(* with id R invokes its handler for the message; every other peer that    *)
(* sees it, through a subscription of its own or because it shares the     *)
(* MQTT client, drops it without invoking a handler                        *)
C6_Targeting ==
    \A i \in step.invoked : IsSome(i.receiver) => i.peer = Get(i.receiver)

----------------------------------------------------------------------------
(* Several registrants: A (on its own MQTT client) and B register the      *)
(* service; C, which shares the MQTT client of B and registers nothing,    *)
(* calls it with and without a receiver, with arguments the handler        *)
(* accepts and rejects.                                                    *)

RegistrantCalls ==
    { [params |-> <<"x">>,   receiver |-> None],
      [params |-> <<"bad">>, receiver |-> None],
      [params |-> <<"x">>,   receiver |-> Some("A")] }

InitRegistrants == Constructed([p \in Peers |-> IF p = "A" THEN "m1" ELSE "m2"])

NextRegistrants ==
    \/ \E p \in {"A", "B"} : Register(p, "s1")
    \/ \E j \in jobs : Registered(j)
    \/ /\ nextId <= MaxRequests
       /\ \E i \in RegistrantCalls : Call("C", "s1", i.params, i.receiver, "ok")
    \/ \E j \in jobs : ServiceRespond(j)
    \/ \E c \in Clients : Deliver(c)

SpecRegistrants == InitRegistrants /\ [][NextRegistrants]_vars

(* the promise chain of a handler that returns or throws settles *)
SpecRegistrantsFair ==
    /\ SpecRegistrants
    /\ WF_vars(\E j \in jobs : ServiceRespond(j))

(* peer p has received request rid and not answered it yet *)
Answering(js, p, rid) ==
    {j \in js : j.kind = "service" /\ j.peer = p /\ j.id = rid}

(* the response the spec asks of a peer for the request of job j *)
ExpectedResponse(j) ==
    LET h == ServiceHandler(j.params)
    IN  IF ~j.hasHandler
        THEN makeServiceCallResponse(j.id, None, Some("method not found: " \o j.name),
                                     Some(j.peer), j.sender)
        ELSE IF h.ok
        THEN makeServiceCallResponse(j.id, Some(h.value), None, Some(j.peer), j.sender)
        ELSE makeServiceCallResponse(j.id, None, Some(h.value), Some(j.peer), j.sender)

C14_Received ==
    (step'.act = "deliver" /\ Head(inbox[step'.peer]).msg.type = "service-call-request") =>
        LET m == Head(inbox[step'.peer]).msg
        IN  \A p \in Peers :
              peers[p].mqtt = step'.peer =>
                /\ Cardinality(Answering(jobs', p, m.id))
                      = Cardinality(Answering(jobs, p, m.id)) + 1
                /\ \A j \in Answering(jobs', p, m.id) \ jobs :
                      /\ j.sender = m.sender /\ j.name = Get(m.name)
                      /\ j.params = m.params
                      /\ j.hasHandler = (Get(m.name) \in peers[p].registrations)

C14_Responded ==
    step'.act = "serviceRespond" =>
        \E j \in jobs :
            /\ j.kind = "service" /\ j.peer = step'.peer /\ j.id = step'.id
            /\ jobs' = jobs \ {j}
            /\ IsSome(j.sender) =>
                  step'.ops = << OpPublish(peers[j.peer].mqtt,
                                     topicMake(j.name, "service-call-response", j.sender),
                                     ExpectedResponse(j)) >>

C14_OnlyThen ==
    /\ (\E i \in 1..Len(step'.ops) :
            /\ step'.ops[i].op = "publish"
            /\ Get(step'.ops[i].msg).type = "service-call-response")
          => step'.act = "serviceRespond"
    /\ (\E j \in jobs \ jobs' : j.kind = "service") => step'.act = "serviceRespond"

C14_Eventually ==
    \A p \in Peers : \A rid \in 1..MaxOps :
        [](Answering(jobs, p, rid) /= {} => <>(Answering(jobs, p, rid) = {}))

(* C14: every peer that receives a service-call-request carrying a sender  *)
(* publishes exactly one service-call-response with the id of the request  *)
(* to (service, service-call-response, sender): the handler's return value, *)
(* the error message of the handler, or "method not found: <service>" when *)
(* the peer has no registration for the service                            *)
C14_OneResponse ==
    [][C14_Received /\ C14_Responded /\ C14_OnlyThen]_vars /\ C14_Eventually

(* the peer without a registration has answered "method not found" *)
C14_Witness ==
    /\ step.act = "serviceRespond" /\ step.peer = "C"
    /\ Len(step.ops) = 1
    /\ Get(step.ops[1].msg).error = Some("method not found: s1")
    /\ step.ops[1].topic = topicMake("s1", "service-call-response", Some("C"))

C15_Broadcast ==
    \A j1 \in jobs : \A j2 \in jobs :
        (/\ j1.kind = "service" /\ j2.kind = "service"
         /\ j1.id = j2.id
         /\ j1.hasHandler /\ j2.hasHandler) => j1.peer = j2.peer

C15_Directed ==
    \A i \in step.invoked :
        (i.kind = "service" /\ IsSome(i.receiver)) => i.peer = Get(i.receiver)

(* C15: the handlers of two registrants are never both invoked for the     *)
(* same request, and a request that names a receiver invokes the handler   *)
(* of the addressed registrant only                                        *)
C15_OneRegistrant == C15_Broadcast /\ C15_Directed

----------------------------------------------------------------------------
(* Handles and their teardown: A subscribes to the event, registers the    *)
(* service or provisions the resource, tears the handle down (the broker   *)
(* call may fail), attaches again and calls the teardown of either handle  *)
(* any number of times, while C emits, calls or fetches.                   *)

InitHandles == Constructed([p \in Peers |-> IF p = "C" THEN "m2" ELSE "m1"])

(* the handles the endpoint has returned so far *)
Returned(kind, p, name) ==
    {k \in DOMAIN handles : SameEndpoint(k, Handle(kind, p, name, 0))}

(* the application attaches to one kind of endpoint *)
OnlyKind(kind) ==
    /\ \A k \in DOMAIN handles : k.kind = kind
    /\ \A j \in jobs : j.kind \in {"subscribe", "register", "provision"} => j.kind = kind

NextHandles ==
    \/ /\ OnlyKind("subscribe")
       /\ Cardinality(Returned("subscribe", "A", "e1")) < MaxHandles
       /\ Subscribe("A", "e1")
    \/ SubscribeAgain("A", "e1")
    \/ \E j \in jobs : Subscribed(j)
    \/ /\ OnlyKind("register")
       /\ Cardinality(Returned("register", "A", "s1")) < MaxHandles
       /\ Register("A", "s1")
    \/ RegisterAgain("A", "s1")
    \/ \E j \in jobs : Registered(j)
    \/ /\ OnlyKind("provision")
       /\ Cardinality(Returned("provision", "A", "r1")) < MaxHandles
       /\ Provision("A", "r1")
    \/ ProvisionAgain("A", "r1")
    \/ \E j \in jobs : Provisioned(j)
    \/ \E k \in DOMAIN handles, fail \in BOOLEAN : Unsubscribe(k, fail)
    \/ \E k \in DOMAIN handles, fail \in BOOLEAN : Unregister(k, fail)
    \/ \E k \in DOMAIN handles, fail \in BOOLEAN : Unprovision(k, fail)
    \/ \E j \in jobs : TornDown(j)
    \/ nextId <= MaxRequests /\ Emit("C", "e1", Some(<<"x">>), None)
    \/ nextId <= MaxRequests /\ Call("C", "s1", <<"x">>, None, "ok")
    \/ nextId <= MaxRequests /\ Fetch("C", "r1", None, None)
    \/ \E rid \in DOMAIN fetches : FetchSubscribed(rid)
    \/ \E c \in Clients : Deliver(c)

SpecHandles == InitHandles /\ [][NextHandles]_vars

TeardownActs == {"unsubscribe", "unregister", "unprovision"}

AttachActs == {"subscribeStart", "registerStart", "provisionStart"}

(* the handler table of a kind of handle *)
TableOf(me, kind) ==
    CASE kind = "subscribe" -> me.subscriptions
      [] kind = "register"  -> me.registrations
      [] kind = "provision" -> me.provisionings

(* the kind of handle whose handler an invocation runs *)
KindOf(invocation) ==
    CASE invocation = "event"   -> "subscribe"
      [] invocation = "service" -> "register"
      [] invocation \in {"fetch", "push"} -> "provision"

(* the endpoint of handle k was attached again after k was returned *)
Reopened(k) ==
    \/ \E x \in DOMAIN handles : SameEndpoint(x, k) /\ x.n > k.n
    \/ \E j \in jobs : j.kind = k.kind /\ j.peer = k.peer /\ j.name = k.name

FailedOps(ops) == {i \in 1..Len(ops) : ops[i].op = "unsubscribe-failed"}

C16_Issued ==
    (step'.act \in TeardownActs /\ step'.thrown = None /\ FailedOps(step'.ops) = {}) =>
        LET k == Get(step'.target)
        IN  /\ {step'.ops[i].topic : i \in 1..Len(step'.ops)} = HandleTopics(k)
            /\ \A i \in 1..Len(step'.ops) : step'.ops[i].op = "unsubscribe"
            /\ brokerSubs'[peers[k.peer].mqtt] \cap HandleTopics(k) = {}
            /\ k.name \notin TableOf(peers'[k.peer], k.kind)

C16_Completed ==
    \A k \in DOMAIN handles :
        (handles[k].outcome = "resolved" /\ ~Reopened(k)) =>
            /\ brokerSubs[peers[k.peer].mqtt] \cap HandleTopics(k) = {}
            /\ k.name \notin TableOf(peers[k.peer], k.kind)

C16_NoHandler ==
    step'.act = "deliver" =>
        \A i \in step'.invoked :
            Get(Head(inbox[step'.peer]).msg.name) \in TableOf(peers[i.peer], KindOf(i.kind))

(* C16: the teardown of a handle removes the handler entry and issues an   *)
(* unsubscribe for each of the two (event, service) or four (resource)     *)
(* topics of the handle; once it has completed, and until the endpoint is  *)
(* attached again, the MQTT client of the peer holds no subscription on    *)
(* these topics and no inbound message invokes a handler for the endpoint  *)
C16_Teardown == []C16_Completed /\ [][C16_Issued /\ C16_NoHandler]_vars

(* a request that was on its way when the resource was unprovisioned is    *)
(* delivered after the teardown has completed, and invokes nothing         *)
C16_Witness ==
    /\ step.act = "deliver" /\ step.peer = "m1" /\ step.invoked = {}
    /\ \E k \in DOMAIN handles :
          /\ k.kind = "provision"
          /\ handles[k].outcome = "resolved"
          /\ ~Reopened(k)

C17_Stale ==
    (step'.act \in TeardownActs /\ handles[Get(step'.target)].torn) =>
        /\ IsSome(step'.thrown)
        /\ step'.ops = <<>>
        /\ peers' = peers /\ handles' = handles
        /\ brokerSubs' = brokerSubs /\ jobs' = jobs

(* C17: a teardown call on a handle that was torn down before fails and    *)
(* changes nothing: no handler entry is removed and no unsubscribe issued, *)
(* also when the endpoint has been attached again through a new handle     *)
C17_SecondTeardown == [][C17_Stale]_vars

AlreadyMessage(k) ==
    CASE k.kind = "subscribe" -> "subscribe: event \"" \o k.name \o "\" already subscribed"
      [] k.kind = "register"  -> "register: service \"" \o k.name \o "\" already registered"
      [] k.kind = "provision" -> "provision: resource \"" \o k.name \o "\" already provisioned"

C18_Refused ==
    (/\ step'.act \in AttachActs
     /\ Get(step'.target).name
           \in TableOf(peers[Get(step'.target).peer], Get(step'.target).kind)) =>
        /\ step'.thrown = Some(AlreadyMessage(Get(step'.target)))
        /\ step'.ops = <<>>
        /\ peers' = peers /\ handles' = handles
        /\ brokerSubs' = brokerSubs /\ jobs' = jobs

(* C18: subscribe, register or provision for a name that has a handler on  *)
(* the peer fails with the "already subscribed/registered/provisioned"     *)
(* error, issues no subscribe or unsubscribe and leaves the handler, the   *)
(* handle and the subscriptions as they were                               *)
C18_Duplicate == [][C18_Refused]_vars

(* a second subscribe for the event was refused while the first handle is  *)
(* in use                                                                  *)
C18_Witness ==
    /\ step.act = "subscribeStart" /\ IsSome(step.thrown)
    /\ "e1" \in peers["A"].subscriptions
    /\ \E k \in DOMAIN handles : k.kind = "subscribe" /\ handles[k].current

C19_Removed ==
    (step'.act \in TeardownActs /\ step'.thrown = None /\ FailedOps(step'.ops) /= {}) =>
        LET k == Get(step'.target)
        IN  /\ k.name \notin TableOf(peers'[k.peer], k.kind)
            /\ ~handles'[k].current
            /\ brokerSubs' = brokerSubs

C19_Surfaced ==
    step'.act = "teardownDone" =>
        LET k == Get(step'.target)
        IN  \E j \in jobs \ jobs' :
              /\ j.kind = "teardown" /\ j.handle = k
              /\ handles'[k].outcome = IF j.fail THEN "rejected" ELSE "resolved"

C19_Dropped ==
    step'.act = "deliver" =>
        \A i \in step'.invoked :
            \E k \in DOMAIN handles :
                /\ k.peer = i.peer /\ k.kind = KindOf(i.kind)
                /\ k.name = Get(Head(inbox[step'.peer]).msg.name)
                /\ handles[k].current

(* C19: when the broker unsubscribe of a teardown fails, the handler entry *)
(* is removed all the same, the promise of the teardown rejects, and the   *)
(* messages the broker keeps routing to the peer invoke no handler         *)
C19_FailedTeardown == [][C19_Removed /\ C19_Surfaced /\ C19_Dropped]_vars

(* an event emitted after the failed unsubscribe is still routed to the    *)
(* peer and is dropped there                                               *)
C19_Witness ==
    /\ step.act = "deliver" /\ step.peer = "m1" /\ step.invoked = {}
    /\ \E k \in DOMAIN handles :
          /\ k.kind = "subscribe"
          /\ handles[k].outcome = "rejected"
          /\ ~Reopened(k)
          /\ HandleTopics(k) \subseteq brokerSubs["m1"]

----------------------------------------------------------------------------
(* destroy(): A calls the service and fetches the resource of C; either    *)
(* peer may be destroyed at any time.                                      *)

InitDestroy == Constructed([p \in Peers |-> IF p = "C" THEN "m2" ELSE "m1"])

NextDestroy ==
    \/ Register("C", "s1")
    \/ \E j \in jobs : Registered(j)
    \/ Provision("C", "r1")
    \/ \E j \in jobs : Provisioned(j)
    \/ Call("A", "s1", <<"x">>, None, "ok")
    \/ \E rid \in DOMAIN calls : CallTimeout(rid)
    \/ \E j \in jobs : ServiceRespond(j)
    \/ Fetch("A", "r1", None, None)
    \/ \E rid \in DOMAIN fetches : FetchSubscribed(rid)
    \/ \E rid \in DOMAIN fetches : FetchTimeout(rid)
    \/ \E j \in jobs :
          \E h \in {x \in ServeInputs : x.kind = "buffer" /\ Len(x.data) = MaxLen} :
              ServeHandled(j, h)
    \/ \E p \in {"A", "C"} : Destroy(p)
    \/ \E c \in Clients : Deliver(c)

SpecDestroy == InitDestroy /\ [][NextDestroy]_vars

(* the timers fire, and the broker acknowledges the subscribe of a fetch *)
SpecDestroyFair ==
    /\ SpecDestroy
    /\ \A rid \in 1..MaxOps :
          /\ WF_vars(rid \in DOMAIN calls /\ CallTimeout(rid))
          /\ WF_vars(rid \in DOMAIN fetches /\ FetchSubscribed(rid))
          /\ WF_vars(rid \in DOMAIN fetches /\ FetchTimeout(rid))

C20_Silent ==
    step'.act = "deliver" =>
        \A p \in Peers :
            ~peers[p].listening =>
                /\ peers'[p] = peers[p]
                /\ \A i \in step'.invoked : i.peer /= p
                /\ \A rid \in DOMAIN calls : calls[rid].peer = p => calls'[rid] = calls[rid]
                /\ \A rid \in DOMAIN fetches :
                      fetches[rid].peer = p => fetches'[rid] = fetches[rid]
                /\ \A j \in jobs' \ jobs : j.peer /= p

C20_Destroy ==
    step'.act = "destroy" =>
        /\ step'.ops = <<>>
        /\ calls' = calls /\ fetches' = fetches /\ jobs' = jobs
        /\ brokerSubs' = brokerSubs
        /\ \A p \in Peers :
              /\ peers'[p] = [peers[p] EXCEPT !.listening = peers'[p].listening]
              /\ peers[p].mqtt = peers[step'.peer].mqtt => ~peers'[p].listening

C20_TimesOut ==
    /\ \A rid \in DOMAIN calls :
          (/\ ~peers[calls[rid].peer].listening
           /\ calls[rid].outcome = None /\ calls'[rid].outcome /= None) =>
              /\ step'.act = "callTimeout"
              /\ calls'[rid].outcome = Some([kind |-> "rejected", value |-> TimeoutError])
              /\ ~MapHas(peers'[calls[rid].peer].responseCallback, rid)
    /\ \A rid \in DOMAIN fetches :
          (/\ ~peers[fetches[rid].peer].listening
           /\ FetchState(fetches[rid]) \notin Terminal
           /\ FetchState(fetches'[rid]) \in Terminal) =>
              /\ step'.act = "fetchTimeout"
              /\ FetchState(fetches'[rid]) = "timed-out"
              /\ ~MapHas(peers'[fetches[rid].peer].callbacks, rid)

(* no call and no fetch of a destroyed peer is in flight *)
C20_Settled ==
    /\ \A rid \in DOMAIN calls :
          ~peers[calls[rid].peer].listening => calls[rid].outcome /= None
    /\ \A rid \in DOMAIN fetches :
          ~peers[fetches[rid].peer].listening => FetchState(fetches[rid]) \in Terminal

C20_Eventually == <>[]C20_Settled

----------------------------------------------------------------------------
(* Peers sharing an MQTT client: A and B were both constructed with m1, B  *)
(* subscribes to an event and registers a service, C (on m2) emits and     *)
(* calls; the application destroys A, and only A.                          *)

NextSiblings ==
    \/ Subscribe("B", "e1")
    \/ \E j \in jobs : Subscribed(j)
    \/ Register("B", "s1")
    \/ \E j \in jobs : Registered(j)
    \/ \E r \in {None, Some("B")} : Emit("C", "e1", Some(<<"x">>), r)
    \/ Call("C", "s1", <<"x">>, None, "ok")
    \/ \E rid \in DOMAIN calls : CallTimeout(rid)
    \/ \E j \in jobs : ServiceRespond(j)
    \/ Destroy("A")
    \/ \E c \in Clients : Deliver(c)

SpecSiblings == InitService /\ [][NextSiblings]_vars

(* the handlers of peer q the message at the head of the inbox of its      *)
(* client is for                                                           *)
HandlerFor(q, e) ==
    \/ e.msg.type = "event-emission" /\ Get(e.msg.name) \in peers[q].subscriptions
    \/ e.msg.type = "service-call-request" /\ Get(e.msg.name) \in peers[q].registrations

C21_Installed == \A q \in Peers \ {"A"} : peers[q].listening

C21_Receives ==
    step'.act = "deliver" =>
        \A q \in Peers \ {"A"} :
            (peers[q].mqtt = step'.peer /\ HandlerFor(q, Head(inbox[step'.peer]))) =>
                \E i \in step'.invoked : i.peer = q

(* C21: destroying A detaches the message callback of A only: B, which     *)
(* shares the MQTT client of A, stays installed and its handlers are still *)
(* invoked for the messages the client receives                            *)
C21_OthersStay == []C21_Installed /\ [][C21_Receives]_vars

----------------------------------------------------------------------------
(* Dry runs: A emits through the object-based API, with and without the    *)
(* dry flag, to the subscriber B; the application also constructs a peer   *)
(* with null in place of the MQTT client, as for a last-will message.      *)

EmitConfigs ==
    [dry : BOOLEAN, event : {"e1"}, params : {Some(<<"close">>)},
     receiver : {None, Some("B")}]

NextDry ==
    \/ Subscribe("B", "e1")
    \/ \E j \in jobs : Subscribed(j)
    \/ Subscribe("C", "e1")
    \/ \E config \in EmitConfigs : EmitConfig("A", config)
    \/ Construct("A", None)
    \/ \E c \in Clients : Deliver(c)

SpecDry == InitService /\ [][NextDry]_vars

(* what the i-th dry emit of a peer returns, by the documentation *)
DryResult(p, rid, config) ==
    [topic   |-> topicMake(config.event, "event-emission", config.receiver),
     payload |-> makeEventEmission(rid, config.event, config.params, Some(p), config.receiver)]

C22_Dry ==
    (step'.act = "emitConfig" /\ Get(step'.target).dry) =>
        /\ step'.ops = <<>>
        /\ brokerSubs' = brokerSubs /\ inbox' = inbox
        /\ step'.returned = Some(DryResult(step'.peer, step'.id, Get(step'.target)))

C22_Null ==
    step'.act = "construct" => step'.thrown = None

(* C22: emit with dry: true returns the topic and the encoded envelope and *)
(* calls nothing on the MQTT client; constructing a peer with null as its  *)
(* client completes without an error                                       *)
C22_DryRun == [][C22_Dry /\ C22_Null]_vars

----------------------------------------------------------------------------
(* Publish failures of calls *)

C23_Failure ==
    step'.act = "callPublishFailed" =>
        LET rid   == step'.id
            p     == calls[rid].peer
            topic == topicMake(calls[rid].service, "service-call-response", Some(p))
        IN  IF MapHas(peers[p].responseCallback, rid)
            THEN /\ ~MapHas(peers'[p].responseCallback, rid)
                 /\ calls[rid].timer = "armed" /\ calls'[rid].timer = "null"
                 /\ Refcount(peers', p, topic) = Refcount(peers, p, topic) - 1
                 /\ calls[rid].outcome = None
                 /\ calls'[rid].outcome = Some([kind |-> "rejected", value |-> "publish failed"])
                 /\ calls'[rid].settles = 1
            ELSE /\ peers' = peers
                 /\ calls' = [calls EXCEPT ![rid].publishError = FALSE]
                 /\ calls'[rid].outcome = calls[rid].outcome /\ calls[rid].outcome /= None
                 /\ step'.ops = <<>>
                 /\ brokerSubs' = brokerSubs /\ inbox' = inbox /\ errors' = errors

(* C23: a publish failure reported while the pending entry of the call is  *)
(* present removes the entry, clears the timer, lowers the refcount of the *)
(* response topic by exactly one and rejects the call with the error; one  *)
(* reported after a response or the timeout removed the entry changes      *)
(* nothing                                                                 *)
C23_PublishFailure == [][C23_Failure]_vars

(* the publish failure of a call is reported after its response settled    *)
(* it, while another call of the peer is in flight                         *)
C23_Witness ==
    /\ step.act = "callPublishFailed"
    /\ calls[step.id].outcome /= None
    /\ calls[step.id].outcome /= Some([kind |-> "rejected", value |-> "publish failed"])
    /\ \E rid \in DOMAIN calls :
          /\ rid /= step.id /\ calls[rid].peer = calls[step.id].peer
          /\ calls[rid].outcome = None

----------------------------------------------------------------------------
(* Inbound messages of publishers that are no MQTT+ peers: C registers s1, *)
(* B (sharing m1 with A) subscribes to e1; requests without a sender id    *)
(* and payloads that are no envelopes arrive on their topics, next to the  *)
(* calls of A.                                                             *)

Malformed(kind, id) == [Envelope(kind, id, None, None) EXCEPT !.type = kind]

InboundInputs(rid) ==
    LET request == topicMake("s1", "service-call-request", None)
        event   == topicMake("e1", "event-emission", None)
    IN  { [topic |-> request,
           msg   |-> makeServiceCallRequest(rid, "s1", <<"x">>, None, None)],
          [topic |-> request, msg |-> Malformed("undecodable", rid)],
          [topic |-> request, msg |-> Malformed("not-an-object", rid)],
          [topic |-> event,   msg |-> Malformed("no-such-type", rid)] }

NextInbound ==
    \/ Register("C", "s1")
    \/ \E j \in jobs : Registered(j)
    \/ Subscribe("B", "e1")
    \/ \E j \in jobs : Subscribed(j)
    \/ \E i \in InboundInputs(nextId) : ForeignPublish(i.topic, i.msg)
    \/ Call("A", "s1", <<"x">>, None, "ok")
    \/ \E j \in jobs : ServiceRespond(j)
    \/ \E c \in Clients : Deliver(c)

SpecInbound == InitService /\ [][NextInbound]_vars

(* the ids of the requests that arrived without a sender *)
Senderless(js) == {j.id : j \in {x \in js : x.kind = "service" /\ x.sender = None}}

C24_NoResponse ==
    \A i \in 1..Len(step'.ops) :
        LET o == step'.ops[i]
        IN  (o.op = "publish" /\ Get(o.msg).type = "service-call-response") =>
                Get(o.msg).id \notin Senderless(jobs)

C24_OneError ==
    \A j \in jobs :
        (j.kind = "service" /\ j.sender = None) =>
            LET c == peers[j.peer].mqtt
            IN  IF step'.act = "serviceRespond" /\ j \notin jobs'
                THEN /\ step'.ops = <<>>
                     /\ errors' = [errors EXCEPT
                                      ![c] = Append(@, "invalid request: missing sender")]
                ELSE /\ j \in jobs'
                     /\ \A k \in 1..Len(errors'[c]) :
                           k > Len(errors[c]) =>
                               errors'[c][k] /= "invalid request: missing sender"
                                  \/ step'.act = "serviceRespond"

(* C24: for a service-call-request without a sender id a peer publishes no *)
(* service-call-response, and its promise chain ends by emitting the one   *)
(* error "invalid request: missing sender" on the error channel of its     *)
(* MQTT client                                                             *)
C24_MissingSender == [][C24_NoResponse /\ C24_OneError]_vars

(* the chain of a request without sender ended at the registrant C, the    *)
(* only peer of its MQTT client                                            *)
C24_Witness ==
    /\ step.act = "serviceRespond" /\ step.peer = "C" /\ step.ops = <<>>
    /\ errors["m2"] = <<"invalid request: missing sender">>
    /\ "s1" \in peers["C"].registrations

----------------------------------------------------------------------------
(* Payloads that are no envelopes *)

Listeners(c) == {p \in Peers : peers[p].mqtt = c /\ peers[p].listening}

ParseError(message) == "failed to parse message: " \o Get(parseFailure(message))

C25_Dropped ==
    (step'.act = "deliver" /\ IsSome(parseFailure(Head(inbox[step'.peer]).msg))) =>
        LET c == step'.peer
            e == Head(inbox[c])
        IN  /\ step'.invoked = {} /\ step'.ops = <<>>
            /\ peers' = peers /\ calls' = calls /\ fetches' = fetches /\ jobs' = jobs
            /\ handles' = handles /\ brokerSubs' = brokerSubs
            /\ inbox' = [inbox EXCEPT ![c] = Tail(@)]
            /\ Len(errors'[c]) = Len(errors[c]) + Cardinality(Listeners(c))
            /\ \A k \in 1..Len(errors'[c]) :
                  errors'[c][k] = IF k <= Len(errors[c]) THEN errors[c][k] ELSE ParseError(e.msg)
            /\ \A d \in Clients \ {c} : errors'[d] = errors[d]

C25_Later ==
    (/\ step'.act = "deliver"
     /\ Head(inbox[step'.peer]).msg.type = "service-call-request") =>
        \A p \in Listeners(step'.peer) :
            \E j \in jobs' :
                j.kind = "service" /\ j.peer = p /\ j.id = Head(inbox[step'.peer]).msg.id

(* C25: a payload that does not decode or does not parse makes each peer   *)
(* of the MQTT client emit exactly one "failed to parse message" error and *)
(* nothing else: no handler runs, nothing is published, no table and no    *)
(* subscription changes; the messages delivered afterwards are dispatched  *)
(* as before                                                               *)
C25_ParseFailure == [][C25_Dropped /\ C25_Later]_vars

(* C dispatched a request, and invoked its handler, after it had dropped   *)
(* a payload that is not CBOR                                              *)
C25_Witness ==
    /\ step.act = "deliver" /\ step.peer = "m2"
    /\ \E i \in step.invoked : i.peer = "C"
    /\ errors["m2"] = <<"failed to parse message: failed to decode CBOR format">>

----------------------------------------------------------------------------
(* Event handlers that fail: B subscribes to e1, C emits it with            *)
(* parameters the handler of B returns for, throws for, or rejects for.    *)

EventParams == {Some(<<"x">>), Some(<<"bad">>), Some(<<"late">>)}

NextEvents ==
    \/ Subscribe("B", "e1")
    \/ \E j \in jobs : Subscribed(j)
    \/ \E params \in EventParams : \E r \in {None, Some("B")} : Emit("C", "e1", params, r)
    \/ \E j \in jobs : EventRejected(j)
    \/ \E c \in Clients : Deliver(c)

SpecEvents == InitService /\ [][NextEvents]_vars

(* the subscribers of the event emission at the head of the inbox of c *)
Subscribers(c) ==
    {p \in Listeners(c) : Get(Head(inbox[c]).msg.name) \in peers[p].subscriptions}

C26_Reported ==
    (step'.act = "deliver" /\ Head(inbox[step'.peer]).msg.type = "event-emission") =>
        LET c   == step'.peer
            e   == Head(inbox[c])
            out == EventHandler(e.msg.params)
        IN  /\ \A p \in Subscribers(c) : \E i \in step'.invoked : i.peer = p /\ i.id = e.msg.id
            /\ errors'[c] = IF out.kind = "throws" /\ Subscribers(c) /= {}
                            THEN Append(errors[c], out.value) ELSE errors[c]
            /\ out.kind = "rejects" =>
                  \A p \in Subscribers(c) :
                      [kind |-> "event", peer |-> p, id |-> e.msg.id, error |-> out.value]
                          \in jobs'

C26_Rejected ==
    step'.act = "eventRejected" =>
        /\ errors'[peers[step'.peer].mqtt] =
              Append(errors[peers[step'.peer].mqtt], "event refused")
        /\ step'.ops = <<>>

C26_Stays ==
    /\ \A p \in Peers : peers[p].subscriptions \subseteq peers'[p].subscriptions
    /\ \A c \in Clients : brokerSubs[c] \subseteq brokerSubs'[c]
    /\ step'.act \in {"deliver", "eventRejected"} =>
          peers' = peers /\ brokerSubs' = brokerSubs /\ step'.ops = <<>>

(* C26: the error an event handler throws, or its promise rejects with, is *)
(* emitted on the error channel of the MQTT client; the handler entry and  *)
(* the two broker subscriptions stay, and every later emission of the      *)
(* event invokes the handler again                                         *)
C26_HandlerError == [][C26_Reported /\ C26_Rejected /\ C26_Stays]_vars

(* the handler of B was invoked for, and threw for, a second emission      *)
(* after it had thrown for the first                                       *)
C26_Witness ==
    /\ step.act = "deliver" /\ step.peer = "m1"
    /\ \E i \in step.invoked : i.peer = "B"
    /\ errors["m1"] = <<"invalid event", "invalid event">>
    /\ "e1" \in peers["B"].subscriptions
    /\ HandleTopics(Handle("subscribe", "B", "e1", 1)) \subseteq brokerSubs["m1"]

----------------------------------------------------------------------------
(* Codec and envelope parser (mqtt-plus-codec, mqtt-plus-msg).             *)
(*                                                                         *)
(* A JavaScript value is a record of its type tag t and its content: the   *)
(* string s, the bytes b, or the array a of strings.  "object" is a plain  *)
(* object {k: s}; "object:Buffer" is the plain object {type: "Buffer",     *)
(* data: [...b]} and "object:__Uint8Array" the plain object                *)
(* {__Uint8Array: <base64>}, with the base64 digits in b.                  *)

Value(t, s, b, a) == [t |-> t, s |-> s, b |-> b, a |-> a]

Undefined        == Value("undefined", "", <<>>, <<>>)
JsString(s)      == Value("string", s, <<>>, <<>>)
JsBoolean(x)     == Value("boolean", IF x THEN "true" ELSE "false", <<>>, <<>>)
JsArray(a)       == Value("array", "", <<>>, a)
JsObject(s)      == Value("object", s, <<>>, <<>>)
JsBuffer(b)      == Value("Buffer", "", b, <<>>)
JsUint8Array(b)  == Value("Uint8Array", "", b, <<>>)

(* base64 digits are 0..63, the padding "=" is 64 *)
Pad == 64

(* btoa(String.fromCharCode(...arr)) *)
RECURSIVE uint8ArrayToBase64(_)
uint8ArrayToBase64(arr) ==
    IF Len(arr) = 0 THEN <<>>
    ELSE IF Len(arr) = 1
    THEN <<arr[1] \div 4, (arr[1] % 4) * 16, Pad, Pad>>
    ELSE IF Len(arr) = 2
    THEN <<arr[1] \div 4, (arr[1] % 4) * 16 + arr[2] \div 16, (arr[2] % 16) * 4, Pad>>
    ELSE <<arr[1] \div 4, (arr[1] % 4) * 16 + arr[2] \div 16,
           (arr[2] % 16) * 4 + arr[3] \div 64, arr[3] % 64>>
         \o uint8ArrayToBase64(SubSeq(arr, 4, Len(arr)))

(* atob(base64), each character code stored in the array *)
RECURSIVE base64ToUint8Array(_)
base64ToUint8Array(base64) ==
    IF Len(base64) < 4 THEN <<>>
    ELSE LET d == SubSeq(base64, 1, 4)
             b1 == d[1] * 4 + d[2] \div 16
             b2 == (d[2] % 16) * 16 + d[3] \div 4
             b3 == (d[3] % 4) * 64 + d[4]
         IN  (IF d[3] = Pad THEN <<b1>>
              ELSE IF d[4] = Pad THEN <<b1, b2>>
              ELSE <<b1, b2, b3>>)
             \o base64ToUint8Array(SubSeq(base64, 5, Len(base64)))

(* the fields of the envelope classes; name is event, service or resource *)
EnvelopeFields ==
    {"type", "id", "sender", "receiver", "name", "params", "result", "error",
     "chunk", "meta", "final"}

(* JSON.stringify first replaces a value that has a toJSON method by what  *)
(* it returns (Buffer.prototype.toJSON), then calls the replacer on it     *)
toJSON(value) ==
    IF value.t = "Buffer" THEN Value("object:Buffer", "", value.b, <<>>) ELSE value

JSONXreplacer(value) ==
    IF value.t = "Uint8Array"
    THEN Value("object:__Uint8Array", "", uint8ArrayToBase64(value.b), <<>>)
    ELSE value

(* JSONX.stringify(obj): a property whose value is undefined is left out *)
JSONXstringify(obj) ==
    LET doc == [k \in obj.keys |-> JSONXreplacer(toJSON(obj.f[k]))]
    IN  [format |-> "json",
         keys   |-> {k \in obj.keys : doc[k].t /= "undefined"},
         f      |-> [k \in EnvelopeFields |->
                        IF k \in obj.keys THEN doc[k] ELSE Undefined]]

JSONXreviver(value) ==
    IF value.t = "object:__Uint8Array"
    THEN JsUint8Array(base64ToUint8Array(value.b))
    ELSE value

JSONXparse(json) ==
    [keys |-> json.keys,
     f    |-> [k \in EnvelopeFields |->
                  IF k \in json.keys THEN JSONXreviver(json.f[k]) ELSE Undefined]]

(* CBOR.encode with the registered encoder: a Buffer becomes tag 64000     *)
(* around its bytes, a Uint8Array a byte string                            *)
CBORencode(obj) ==
    [format |-> "cbor",
     keys   |-> obj.keys,
     f      |-> [k \in EnvelopeFields |->
                    IF obj.f[k].t = "Buffer" THEN Value("tag:64000", "", obj.f[k].b, <<>>)
                    ELSE IF obj.f[k].t = "Uint8Array" THEN Value("bytes", "", obj.f[k].b, <<>>)
                    ELSE obj.f[k]]]

(* CBOR.decode with the registered tag decoder: Buffer.from(tag.contents) *)
CBORdecode(data) ==
    [keys |-> data.keys,
     f    |-> [k \in EnvelopeFields |->
                  IF data.f[k].t = "tag:64000" THEN JsBuffer(data.f[k].b)
                  ELSE IF data.f[k].t = "bytes" THEN JsUint8Array(data.f[k].b)
                  ELSE data.f[k]]]

(* Codec.encode and Codec.decode *)
encode(type, data) ==
    IF type = "cbor" THEN CBORencode(data) ELSE JSONXstringify(data)

decode(type, data) ==
    IF type = "cbor" /\ data.format = "cbor"
    THEN [ok |-> TRUE, value |-> CBORdecode(data), error |-> ""]
    ELSE IF type = "json" /\ data.format = "json"
    THEN [ok |-> TRUE, value |-> JSONXparse(data), error |-> ""]
    ELSE [ok |-> FALSE, value |-> data, error |-> "invalid format or wrong data type"]

(* the fields makeResourceTransferResponse is called with, and the         *)
(* dispatcher reads back, next to type, id, sender and receiver            *)
ResourceTransferResponseFields == {"name", "params", "chunk", "meta", "error", "final"}

(* the own fields of the envelope classes *)
ClassFields(type) ==
    {"type", "id", "sender", "receiver"} \cup
    CASE type = "event-emission"             -> {"name", "params"}
      [] type = "service-call-request"       -> {"name", "params"}
      [] type = "service-call-response"      -> {"result", "error"}
      [] type = "resource-transfer-request"  -> {"name", "params"}
      [] type = "resource-transfer-response" -> ResourceTransferResponseFields
      [] OTHER                               -> {}

(* new <Class>(...): the object a factory of Msg returns for the fields *)
MakeEnvelope(type, f) ==
    [keys |-> ClassFields(type),
     f    |-> [k \in EnvelopeFields |-> IF k \in ClassFields(type) THEN f[k] ELSE Undefined]]

ParseError_(message) == [ok |-> FALSE, value |-> MakeEnvelope("", [k \in EnvelopeFields |-> Undefined]), error |-> message]

(* Msg.parse: validate the decoded object, build the typed envelope *)
parse(obj) ==
    LET f                == obj.f
        type             == f["type"].s
        anyFieldsExcept  == obj.keys \ ClassFields(type) /= {}
        validParams      == f["params"].t \in {"undefined", "array"}
        named            == type \in {"event-emission", "service-call-request",
                                      "resource-transfer-request"}
        short            == CASE type = "event-emission" -> "EventEmission"
                              [] type = "service-call-request" -> "ServiceCallRequest"
                              [] type = "service-call-response" -> "ServiceCallResponse"
                              [] type = "resource-transfer-request" -> "ResourceTransferRequest"
                              [] OTHER -> "ResourceTransferResponse"
    IN  IF "type" \notin obj.keys \/ f["type"].t /= "string"
        THEN ParseError_("invalid object: missing or invalid \"type\" field")
        ELSE IF "id" \notin obj.keys \/ f["id"].t /= "string"
        THEN ParseError_("invalid object: missing or invalid \"id\" field")
        ELSE IF f["sender"].t \notin {"undefined", "string"}
        THEN ParseError_("invalid object: invalid \"sender\" field")
        ELSE IF f["receiver"].t \notin {"undefined", "string"}
        THEN ParseError_("invalid object: invalid \"receiver\" field")
        ELSE IF type \notin EnvelopeTypes \ {"stream-transfer"}
        THEN ParseError_("invalid object: not of any known type")
        ELSE IF named /\ f["name"].t /= "string"
        THEN ParseError_("invalid " \o short \o " object: name field must be a string")
        ELSE IF type = "resource-transfer-response"
                /\ f["chunk"].t \in {"string", "boolean"}
        THEN ParseError_("invalid ResourceTransferResponse object: "
                         \o "\"chunk\" field must be an object or null")
        ELSE IF type = "resource-transfer-response"
                /\ f["error"].t \notin {"undefined", "string"}
        THEN ParseError_("invalid ResourceTransferResponse object: "
                         \o "\"error\" field must be a string")
        ELSE IF anyFieldsExcept
        THEN ParseError_("invalid " \o short \o " object: contains unknown fields")
        ELSE IF type /= "service-call-response" /\ ~validParams
        THEN ParseError_("invalid " \o short \o " object: \"params\" field must be an array")
        ELSE [ok |-> TRUE, value |-> MakeEnvelope(type, f), error |-> ""]

----------------------------------------------------------------------------
(* Round trips: an envelope is encoded, decoded and parsed under a codec   *)

ByteArrays == {<<>>, <<0>>, <<255>>, <<77, 97>>, <<77, 97, 110>>}

EnvelopeOf(type, f) ==
    MakeEnvelope(type,
        [k \in EnvelopeFields |->
            IF k = "type" THEN JsString(type)
            ELSE IF k = "id" THEN JsString("r1")
            ELSE IF k = "sender" THEN JsString("A")
            ELSE IF k \in DOMAIN f THEN f[k] ELSE Undefined])

Receivers == {Undefined, JsString("B")}
ParamValues == {Undefined, JsArray(<<"x">>)}

(* the envelopes the peers build *)
Envelopes ==
    {EnvelopeOf("event-emission", [name |-> JsString("e1"), params |-> ps, receiver |-> r]) :
        ps \in ParamValues, r \in Receivers}
    \cup
    {EnvelopeOf(type, [name |-> JsString("n1"), params |-> ps, receiver |-> r]) :
        type \in {"service-call-request", "resource-transfer-request"},
        ps \in ParamValues, r \in Receivers}
    \cup
    {EnvelopeOf("service-call-response", [result |-> JsString("x:42"), receiver |-> JsString("B")]),
     EnvelopeOf("service-call-response", [error |-> JsString("invalid"), receiver |-> JsString("B")]),
     EnvelopeOf("service-call-response", [error |-> JsString(""), receiver |-> JsString("B")]),
     EnvelopeOf("resource-transfer-response",
                [name |-> JsString("r1"), error |-> JsString("read failed"),
                 final |-> JsBoolean(TRUE), receiver |-> JsString("B")])}
    \cup
    {EnvelopeOf("resource-transfer-response",
                [name |-> JsString("r1"), params |-> ps, chunk |-> chunk, meta |-> meta,
                 final |-> JsBoolean(final), receiver |-> JsString("B")]) :
        ps \in ParamValues,
        chunk \in {Undefined} \cup {JsBuffer(b) : b \in ByteArrays}
                             \cup {JsUint8Array(b) : b \in ByteArrays},
        meta \in {Undefined, JsObject("m")},
        final \in BOOLEAN}

(* the stages of a round trip; the step keeps the envelope as its target   *)
(* and the outcome of the stage as what it returned or threw               *)
RoundTripStart(type, envelope) ==
    /\ step.act = "init"
    /\ step' = [step EXCEPT !.act = "envelope", !.peer = type, !.target = Some(envelope)]
    /\ UNCHANGED <<peers, calls, fetches, transfers, streams, pushed, armed, jobs,
                   handles, brokerSubs, inbox, errors, nextId>>

Encoded ==
    /\ step.act = "envelope"
    /\ step' = [step EXCEPT !.act = "encode",
                            !.returned = Some(encode(step.peer, Get(step.target)))]
    /\ UNCHANGED <<peers, calls, fetches, transfers, streams, pushed, armed, jobs,
                   handles, brokerSubs, inbox, errors, nextId>>

Decoded ==
    /\ step.act = "encode"
    /\ LET r == decode(step.peer, Get(step.returned))
       IN  step' = [step EXCEPT !.act = "decode",
                                !.returned = IF r.ok THEN Some(r.value) ELSE None,
                                !.thrown = IF r.ok THEN None ELSE Some(r.error)]
    /\ UNCHANGED <<peers, calls, fetches, transfers, streams, pushed, armed, jobs,
                   handles, brokerSubs, inbox, errors, nextId>>

Parsed ==
    /\ step.act = "decode" /\ step.thrown = None
    /\ LET r == parse(Get(step.returned))
       IN  step' = [step EXCEPT !.act = "parse",
                                !.returned = IF r.ok THEN Some(r.value) ELSE None,
                                !.thrown = IF r.ok THEN None ELSE Some(r.error)]
    /\ UNCHANGED <<peers, calls, fetches, transfers, streams, pushed, armed, jobs,
                   handles, brokerSubs, inbox, errors, nextId>>

NextCodec ==
    \/ \E type \in {"cbor", "json"} : \E envelope \in Envelopes : RoundTripStart(type, envelope)
    \/ Encoded
    \/ Decoded
    \/ Parsed

SpecCodec == InitService /\ [][NextCodec]_vars

(* C27: for every envelope and both codecs, parsing the decoded encoding   *)
(* gives back the envelope, field by field, byte-array chunks included     *)
C27_RoundTrip ==
    step.act = "parse" =>
        /\ step.thrown = None
        /\ step.returned = step.target

----------------------------------------------------------------------------
(* The default topic scheme on strings (mqtt-plus-options).  A string is   *)
(* the sequence of its characters.                                         *)

Slash == <<"/">>

AnySegment == <<"a", "n", "y">>

(* `${name}/${operation}/${peerId ?? "any"}` *)
topicMakeString(name, operation, peerId) ==
    name \o Slash \o operation \o Slash \o (IF IsSome(peerId) THEN Get(peerId) ELSE AnySegment)

(* the index of the last "/" of str before position n, 0 if there is none *)
RECURSIVE LastSlash(_, _)
LastSlash(str, n) ==
    IF n = 0 THEN 0
    ELSE IF str[n] = "/" THEN n
    ELSE LastSlash(str, n - 1)

(* a match that takes the name up to the first "/" *)
topicMatchString_ShortName(topic) ==
    LET first == CHOOSE i \in 0..Len(topic) :
                    /\ i > 0 => topic[i] = "/"
                    /\ \A k \in 1..(i - 1) : topic[k] /= "/"
                    /\ i = 0 => \A k \in 1..Len(topic) : topic[k] /= "/"
        rest  == SubSeq(topic, first + 1, Len(topic))
        j     == LastSlash(rest, Len(rest))
    IN  IF first <= 1 \/ j <= 1 \/ j = Len(rest) \/ LastSlash(rest, j - 1) /= 0
        THEN None
        ELSE Some([name      |-> SubSeq(topic, 1, first - 1),
                   operation |-> SubSeq(rest, 1, j - 1),
                   peerId    |-> IF SubSeq(rest, j + 1, Len(rest)) = AnySegment THEN None
                                 ELSE Some(SubSeq(rest, j + 1, Len(rest)))])

(* topic.match(/^(.+)\/([^/]+)\/([^/]+)$/): the last two segments hold no   *)
(* "/" and are not empty, the name is what stands before them, and "."     *)
(* matches no line terminator; None when the topic does not match          *)
topicMatchString(topic) ==
    LET j == LastSlash(topic, Len(topic))
        i == IF j = 0 THEN 0 ELSE LastSlash(topic, j - 1)
    IN  IF j = 0 \/ j = Len(topic) \/ i <= 1 \/ i = j - 1
           \/ \E k \in 1..(i - 1) : topic[k] = "\n"
        THEN None
        ELSE Some([name      |-> SubSeq(topic, 1, i - 1),
                   operation |-> SubSeq(topic, i + 1, j - 1),
                   peerId    |-> IF SubSeq(topic, j + 1, Len(topic)) = AnySegment THEN None
                                 ELSE Some(SubSeq(topic, j + 1, Len(topic)))])

(* strings of at most n characters of an alphabet *)
Strings(alphabet, n) == UNION {[1..k -> alphabet] : k \in 0..n}

TopicNames == Strings({"e", "/", "\n"}, MaxLen)

Operations == {<<"e", "v", "e", "n", "t", "-", "e", "m", "i", "s", "s", "i", "o", "n">>,
               <<"s", "e", "r", "v", "i", "c", "e", "-", "c", "a", "l", "l", "-", "r", "e", "s", "p", "o", "n", "s", "e">>}

PeerIds == {None} \cup {Some(str) : str \in Strings({"a", "n", "y", "/"}, MaxLen)}

(* the stages of a round trip of a topic *)
TopicStart(name, operation, peerId) ==
    /\ step.act = "init"
    /\ step' = [step EXCEPT !.act = "topic",
                            !.target = Some([name |-> name, operation |-> operation,
                                             peerId |-> peerId])]
    /\ UNCHANGED <<peers, calls, fetches, transfers, streams, pushed, armed, jobs,
                   handles, brokerSubs, inbox, errors, nextId>>

TopicMade ==
    /\ step.act = "topic"
    /\ LET t == Get(step.target)
       IN  step' = [step EXCEPT !.act = "topicMake",
                                !.returned = Some(topicMakeString(t.name, t.operation, t.peerId))]
    /\ UNCHANGED <<peers, calls, fetches, transfers, streams, pushed, armed, jobs,
                   handles, brokerSubs, inbox, errors, nextId>>

TopicMatched ==
    /\ step.act = "topicMake"
    /\ step' = [step EXCEPT !.act = "topicMatch",
                            !.returned = topicMatchString(Get(step.returned))]
    /\ UNCHANGED <<peers, calls, fetches, transfers, streams, pushed, armed, jobs,
                   handles, brokerSubs, inbox, errors, nextId>>

NextTopic ==
    \/ \E name \in TopicNames : \E operation \in Operations : \E peerId \in PeerIds :
          TopicStart(name, operation, peerId)
    \/ TopicMade
    \/ TopicMatched

SpecTopic == InitService /\ [][NextTopic]_vars

(* C28 as stated: topicMatch gives back the name, the operation and the    *)
(* peer id (or its absence) topicMake was given, whatever strings they are *)
C28_AnyString ==
    step.act = "topicMatch" => step.returned = step.target

NoSlash(str) == \A k \in 1..Len(str) : str[k] /= "/"

C28_Plain(t) ==
    /\ t.name /= <<>> /\ \A k \in 1..Len(t.name) : t.name[k] /= "\n"
    /\ t.operation /= <<>> /\ NoSlash(t.operation)
    /\ IsSome(t.peerId) =>
          Get(t.peerId) /= <<>> /\ NoSlash(Get(t.peerId)) /\ Get(t.peerId) /= AnySegment

(* C28, amended: topicMatch gives back what topicMake was given when the   *)
(* name is not empty and holds no line terminator (it may contain "/"),    *)
(* the operation is not empty and holds no "/", and the peer id is absent  *)
(* or a non-empty string without "/" other than "any"                      *)
C28_RoundTrip ==
    (step.act = "topicMatch" /\ C28_Plain(Get(step.target))) => step.returned = step.target

(* a name with "/" and a peer id were given and came back *)
C28_Witness ==
    /\ step.act = "topicMatch"
    /\ step.returned = step.target
    /\ Get(step.target).name = <<"e", "/", "e">>
    /\ Get(step.target).peerId = Some(<<"a", "n">>)

----------------------------------------------------------------------------
(* The response-topic subscription at the time a request is published      *)

(* the acknowledgement of a subscribe reaches its callback (or resumes the *)
(* await) in a later turn than the one that issued it: a subscription was  *)
(* issued and acknowledged before this turn only if the turn starts with   *)
(* the broker holding it and does not issue it itself                      *)
AcknowledgedBefore(client, topic) ==
    /\ topic \in brokerSubs[client]
    /\ ~Issued(step'.ops, "subscribe", topic)

C29_Call ==
    step'.act = "call" =>
        LET c  == calls'[step'.id]
            me == peers[c.peer]
        IN  AcknowledgedBefore(me.mqtt,
                topicMake(c.service, "service-call-response", Some(me.id)))

C29_Fetch ==
    step'.act = "fetchSubscribed" =>
        LET f == fetches[step'.id]
        IN  AcknowledgedBefore(peers[f.peer].mqtt, f.responseTopic)

(* C29: a call and a fetch publish the request only after the subscribe of *)
(* the requester's response topic was issued and acknowledged, so that the *)
(* broker holds the subscription when it routes the request                *)
C29_PreSubscribe == [][C29_Call /\ C29_Fetch]_vars

----------------------------------------------------------------------------
(* The responses of a transfer whose source is a Readable                  *)

(* the turn published exactly one response, with these chunk, error and    *)
(* final fields                                                            *)
OneResponse(ops, hasChunk, hasError, final) ==
    /\ Len(ops) = 1
    /\ ops[1].op = "publish"
    /\ LET m == Get(ops[1].msg)
       IN  /\ m.type = "resource-transfer-response"
           /\ IsSome(m.chunk) = hasChunk
           /\ IsSome(m.error) = hasError
           /\ m.final = Some(final)

C30_Read ==
    step'.act = "streamReadable" => OneResponse(step'.ops, TRUE, FALSE, FALSE)

C30_End ==
    step'.act = "streamEnded" => OneResponse(step'.ops, FALSE, FALSE, TRUE)

C30_Error ==
    step'.act = "streamErrored" =>
        /\ OneResponse(step'.ops, FALSE, TRUE, TRUE)
        /\ Get(step'.ops[1].msg).error = Some("read failed")

C30_Silence ==
    \A k \in DOMAIN transfers :
        transfers[k].source = "stream" /\ transfers[k].done /= "no" =>
            transfers'[k].sent = transfers[k].sent

(* C30: when the source of a push or of a served fetch is a Readable,      *)
(* every read publishes one response that is not final, the end of the     *)
(* stream publishes one final response without chunk, an error of the      *)
(* stream publishes one final response with the error message and without  *)
(* chunk, and nothing is published for the transfer after the final one    *)
C30_StreamSource == [][C30_Read /\ C30_End /\ C30_Error /\ C30_Silence]_vars

----------------------------------------------------------------------------
(* The responses to a fetch request.  The handler of the provisioner is a  *)
(* promise chain and the Readable it provides is read by the event loop:   *)
(* a handler that was invoked settles, and a Readable that was provided is *)
(* read until it ends or fails.                                            *)

SpecServeFair ==
    /\ SpecFetch
    /\ WF_vars(\E j \in jobs, h \in ServeInputs : ServeHandled(j, h))
    /\ WF_vars(\E j \in jobs : StreamReadable(j) \/ StreamEnded(j))

(* the serve jobs of request id: its handler, or the Readable it provided  *)
Serving(id) == {j \in jobs : j.kind = "serve" /\ j.id = id}

(* the response topic of the requester of fetch id *)
RequesterTopic(id) ==
    topicMake(fetches[id].resource, "resource-transfer-response", Some(fetches[id].peer))

(* the responses to request id among the MQTT client calls ops *)
ResponsesTo(ops, id) ==
    SelectSeq(ops, LAMBDA o : /\ o.op = "publish"
                              /\ Get(o.msg).type = "resource-transfer-response"
                              /\ Get(o.msg).id = id)

NoData == "handler did not provide data" \o " via info.resource field"

(* the last turn published responses to request id, the last one final *)
C31_Final(id) ==
    LET rs == ResponsesTo(step.ops, id)
    IN  /\ step.peer = "C" /\ step.id = id
        /\ rs /= <<>>
        /\ Get(rs[Len(rs)].msg).final = Some(TRUE)

C31_Answered ==
    \A id \in 1..MaxOps : (Serving(id) /= {}) ~> C31_Final(id)

(* every response goes to the requester's topic; once a final one went out *)
(* none that is not final follows; a handler that set no data source       *)
(* publishes the one error response                                        *)
C31_Sequence ==
    \A id \in DOMAIN fetches :
        LET rs == ResponsesTo(step'.ops, id)
            k  == <<"C", id>>
        IN  /\ \A i \in 1..Len(rs) : rs[i].topic = RequesterTopic(id)
            /\ (k \in DOMAIN transfers /\ transfers[k].done /= "no") =>
                   \A i \in 1..Len(rs) : Get(rs[i].msg).final = Some(TRUE)
            /\ (step'.act = "serveHandled" /\ step'.id = id
                    /\ transfers'[k].source = "none") =>
                   /\ Len(rs) = 1
                   /\ Get(rs[1].msg).error = Some(NoData)
                   /\ Get(rs[1].msg).final = Some(TRUE)

----------------------------------------------------------------------------
(* The responses sendBufferAsChunks publishes for a Buffer                 *)

(* the responses ops are the slices of buffer in order: none is empty, all *)
(* but the last hold chunkSize bytes, and only the last one is final; one  *)
(* final response without chunk for the empty buffer                       *)
SlicesOf(ops, buffer, chunkSize) ==
    LET n == Ceil(Len(buffer), chunkSize)
    IN  IF buffer = <<>>
        THEN OneResponse(ops, FALSE, FALSE, TRUE)
        ELSE /\ Len(ops) = n
             /\ \A i \in 1..n :
                   LET m == Get(ops[i].msg)
                       c == Get(m.chunk)
                   IN  /\ ops[i].op = "publish"
                       /\ IsSome(m.chunk) /\ m.error = None
                       /\ c = SubSeq(buffer, (i - 1) * chunkSize + 1,
                                     Min(i * chunkSize, Len(buffer)))
                       /\ Len(c) >= 1 /\ Len(c) <= chunkSize
                       /\ i < n => Len(c) = chunkSize
                       /\ m.final = Some(i = n)

C32_Slices ==
    step'.act = "push" =>
        LET t == transfers'[<<step'.peer, step'.id>>]
        IN  t.source = "buffer" => SlicesOf(step'.ops, t.data, ChunkSize)

(* C32: sendBufferAsChunks publishes the consecutive slices of a non-empty *)
(* buffer in order, each non-empty and no larger than chunkSize, all but   *)
(* the last of exactly chunkSize bytes, with final=true on the last slice  *)
(* only; for the empty buffer it publishes one response without chunk and  *)
(* with final=true                                                         *)
C32_BufferChunks == [][C32_Slices]_vars

(* a Buffer longer than one chunk and not a multiple of it was pushed *)
C32_Witness ==
    /\ step.act = "push"
    /\ transfers[<<step.peer, step.id>>].source = "buffer"
    /\ Len(transfers[<<step.peer, step.id>>].data) = MaxLen
    /\ Len(step.ops) = Ceil(MaxLen, ChunkSize)
    /\ Get(step.ops[Len(step.ops)].msg).final = Some(TRUE)

----------------------------------------------------------------------------
(* Refused broker subscribes: A subscribes to the event, registers the     *)
(* service and provisions the resource; the broker acknowledges or refuses *)
(* the subscribes, and A may try again; C emits, calls and pushes.         *)

NextRefused ==
    \/ Subscribe("A", "e1")
    \/ \E j \in jobs : Subscribed(j)
    \/ Register("A", "s1")
    \/ \E j \in jobs : Registered(j)
    \/ Provision("A", "r1")
    \/ \E j \in jobs : Provisioned(j)
    \/ \E j \in jobs, fail \in BOOLEAN : SubscribeFailed(j, fail)
    \/ nextId <= MaxRequests /\ Emit("C", "e1", Some(<<"x">>), None)
    \/ nextId <= MaxRequests /\ Call("C", "s1", <<"x">>, None, "ok")
    \/ nextId <= MaxRequests /\ PushBuffer("C", "r1", Bytes(MaxLen), None, None)
    \/ \E rid \in DOMAIN calls : CallTimeout(rid)
    \/ \E j \in jobs : ServiceRespond(j)
    \/ \E tm \in armed : PushTimeout(tm)
    \/ \E c \in Clients : Deliver(c)

SpecRefused == InitService /\ [][NextRefused]_vars

C33_Fails ==
    step'.act = "subscribeFailed" =>
        LET k == Get(step'.target)
        IN  /\ step'.thrown = Some("subscribe refused")
            /\ k.name \notin TableOf(peers'[k.peer], k.kind)
            /\ handles' = handles
            /\ Len(step'.ops) = Cardinality(HandleTopics(k))
            /\ \A t \in HandleTopics(k) :
                  \/ Issued(step'.ops, "unsubscribe", t)
                  \/ Issued(step'.ops, "unsubscribe-failed", t)

(* no handler of a name that is not in the table is invoked *)
C33_NoHandler ==
    step'.act = "deliver" =>
        \A i \in step'.invoked :
            Get(Head(inbox[step'.peer]).msg.name) \in TableOf(peers[i.peer], KindOf(i.kind))

(* C33: when a broker subscribe of subscribe, register or provision fails, *)
(* the operation fails with that error, no handler entry is stored and no  *)
(* handle returned, so that no inbound message invokes the handler, and an *)
(* unsubscribe is issued for each of the two (event, service) or four      *)
(* (resource) topics                                                       *)
C33_SubscribeFailure == [][C33_Fails /\ C33_NoHandler]_vars

(* a message routed while the refused provision was pending is delivered   *)
(* after it failed, and invokes nothing                                    *)
C33_Witness ==
    /\ step.act = "deliver" /\ step.peer = "m1" /\ step.invoked = {}
    /\ "r1" \notin peers["A"].provisionings
    /\ \A j \in jobs : j.kind /= "provision"
    /\ \E k \in DOMAIN transfers : transfers[k].kind = "push" /\ step.id = k[2]
    /\ pushed = <<>>
    /\ handles = EmptyMap

----------------------------------------------------------------------------
(* The tables of pending operations: A calls the service of C, fetches the *)
(* resource C provides and receives what C pushes to the resource it       *)
(* provisions itself, which it may unprovision at any time.  No message is *)
(* bound to arrive; the timers fire, and the broker acknowledges the       *)
(* subscribe of a fetch.                                                   *)

Ready ==
    /\ nextId <= MaxRequests
    /\ "s1" \in peers["C"].registrations
    /\ "r1" \in peers["C"].provisionings
    /\ Returned("provision", "A", "r1") /= {}

NextEntries ==
    \/ Register("C", "s1")
    \/ \E j \in jobs : Registered(j)
    \/ Provision("C", "r1")
    \/ Returned("provision", "A", "r1") = {} /\ Provision("A", "r1")
    \/ \E j \in jobs : Provisioned(j)
    \/ \E k \in DOMAIN handles : k.peer = "A" /\ handles[k].current /\ Unprovision(k, FALSE)
    \/ \E j \in jobs : TornDown(j)
    \/ Ready /\ \E pub \in {"ok", "sent"} : Call("A", "s1", <<"x">>, None, pub)
    \/ \E rid \in DOMAIN calls : CallTimeout(rid)
    \/ \E rid \in DOMAIN calls : CallPublishFailed(rid)
    \/ \E j \in jobs : ServiceRespond(j)
    \/ Ready /\ Fetch("A", "r1", None, None)
    \/ \E rid \in DOMAIN fetches : FetchSubscribed(rid)
    \/ \E rid \in DOMAIN fetches : FetchTimeout(rid)
    \/ \E j \in jobs, h \in ServeInputs : ServeHandled(j, h)
    \/ Ready /\ PushStream("C", "r1", Bytes(MaxLen), None, Some("A"))
    \/ \E j \in jobs : StreamReadable(j)
    \/ \E j \in jobs : StreamEnded(j)
    \/ \E j \in jobs : StreamErrored(j)
    \/ \E tm \in armed : PushTimeout(tm)
    \/ \E c \in Clients : Deliver(c)

SpecEntries == InitService /\ [][NextEntries]_vars

SpecEntriesFair ==
    /\ SpecEntries
    /\ WF_vars(\E rid \in DOMAIN calls : CallTimeout(rid))
    /\ WF_vars(\E rid \in DOMAIN fetches : FetchSubscribed(rid))
    /\ WF_vars(\E rid \in DOMAIN fetches : FetchTimeout(rid))
    /\ WF_vars(\E tm \in armed : PushTimeout(tm))

(* an entry of correlation id rid in the pending-call table, the           *)
(* fetch-callback table or the push-stream table of some peer              *)
Pending(rid) ==
    \E p \in Peers :
        \/ MapHas(peers[p].responseCallback, rid)
        \/ MapHas(peers[p].callbacks, rid)
        \/ MapHas(peers[p].pushStreams, rid)

(* no operation is in flight: every call has settled, the stream of every  *)
(* fetch and every stream handed to a provisioner has ended or was         *)
(* destroyed                                                               *)
Idle ==
    /\ \A rid \in DOMAIN calls : IsSome(calls[rid].outcome)
    /\ \A rid \in DOMAIN fetches : fetches[rid].stream.state /= "open"
    /\ \A i \in DOMAIN streams : streams[i].state /= "open"

TablesEmpty ==
    \A p \in Peers :
        /\ DOMAIN peers[p].responseCallback = {}
        /\ DOMAIN peers[p].callbacks = {}
        /\ DOMAIN peers[p].pushStreams = {}
        /\ DOMAIN peers[p].pushTimers = {}
        /\ DOMAIN peers[p].responseSubscriptions = {}

C34_Removed == \A rid \in 1..MaxOps : Pending(rid) ~> ~Pending(rid)

C34_Quiescent == Idle => TablesEmpty

(* C34: when the timers fire, every entry of the pending-call table, of    *)
(* the fetch-callback table and of the push-stream table is eventually     *)
(* removed, whether or not messages arrive and also when the resource is   *)
(* unprovisioned in the middle of a push; when every call has settled and  *)
(* every stream is closed, these tables, the push-timer table and the      *)
(* refcount map are empty                                                  *)
C34_Cleanup == []C34_Quiescent /\ C34_Removed

(* the timer removed the stream of a push whose resource was unprovisioned *)
(* after the first chunk                                                   *)
C34_Witness ==
    /\ step.act = "pushTimeout"
    /\ "r1" \notin peers["A"].provisionings
    /\ streams /= <<>> /\ streams[1].error = Some("push stream timeout")
    /\ streams[1].data /= <<>>
    /\ Idle /\ TablesEmpty

----------------------------------------------------------------------------
(* The refcount of the response topic and the pending calls                *)

(* the pending-call entries of peer p that wait on response topic t *)
PendingOn(ps, p, t) ==
    {rid \in DOMAIN ps[p].responseCallback :
        topicMake(ps[p].responseCallback[rid].service,
                  "service-call-response", Some(ps[p].id)) = t}

ResponseTopics ==
    {topicMake(s, "service-call-response", Some(p)) : s \in {"s1"}, p \in Peers}

C35_Counts ==
    \A p \in Peers :
        /\ \A t \in ResponseTopics :
              Refcount(peers, p, t) = Cardinality(PendingOn(peers, p, t))
        /\ \A t \in DOMAIN peers[p].responseSubscriptions :
              /\ t \in ResponseTopics
              /\ peers[p].responseSubscriptions[t] >= 1

C35_Once ==
    \A p \in Peers : \A rid \in DOMAIN peers[p].responseCallback :
        ~MapHas(peers'[p].responseCallback, rid) =>
            LET t == topicMake(peers[p].responseCallback[rid].service,
                               "service-call-response", Some(peers[p].id))
            IN  /\ step'.act \in {"deliver", "callTimeout", "callPublishFailed"}
                /\ step'.id = rid
                /\ Refcount(peers', p, t) = Refcount(peers, p, t) - 1

(* C35: the refcount stored for the response topic of a service equals the *)
(* number of pending-call entries of the peer for that service and is      *)
(* never zero or negative; a response, the timeout and a publish failure   *)
(* each remove the entry of their call and lower the count by exactly one  *)
C35_RefcountMatches == []C35_Counts /\ [][C35_Once]_vars

(* the publish failure of one call is reported while another call of the   *)
(* peer is pending                                                         *)
C35_Witness ==
    /\ step.act = "callPublishFailed"
    /\ Cardinality(DOMAIN peers["A"].responseCallback) = 1
    /\ \E t \in ResponseTopics : Refcount(peers, "A", t) = 1
    /\ ~MapHas(peers["A"].responseCallback, step.id)

----------------------------------------------------------------------------
(* A fetch by a peer that provisions the resource itself                   *)

(* the fetch rid is over and its peer provisions the fetched resource *)
FetchedOwn(rid) ==
    /\ FetchState(fetches[rid]) \in Terminal
    /\ fetches[rid].resource \in peers[fetches[rid].peer].provisionings

C36_Subscribed ==
    \A rid \in DOMAIN fetches :
        FetchedOwn(rid) =>
            fetches[rid].responseTopic \in brokerSubs[peers[fetches[rid].peer].mqtt]

C36_Receives ==
    \A rid \in DOMAIN fetches :
        (FetchedOwn(rid) /\ step'.act = "push") =>
            \A i \in 1..Len(step'.ops) :
                step'.ops[i].topic = fetches[rid].responseTopic =>
                    \E n \in 1..Len(inbox'[peers[fetches[rid].peer].mqtt]) :
                        inbox'[peers[fetches[rid].peer].mqtt][n].msg = Get(step'.ops[i].msg)

(* C36: once a fetch of a peer that provisions the fetched resource itself *)
(* has completed, failed or timed out, the MQTT client of the peer still   *)
(* holds the subscription of the directed resource-transfer-response topic *)
(* of the resource, and a push directed to the peer is still routed to it  *)
C36_ProvisioningStays == []C36_Subscribed /\ [][C36_Receives]_vars

----------------------------------------------------------------------------
(* Responses to a fetch and pushed data                                    *)

(* the envelope was published by a provisioner in answer to a request *)
FetchResponse(msg) ==
    /\ msg.type = "resource-transfer-response"
    /\ \E k \in DOMAIN transfers :
          k[2] = msg.id /\ msg.sender = Some(k[1]) /\ transfers[k].kind = "serve"

C37_NotPushed ==
    (step'.act = "deliver" /\ FetchResponse(Head(inbox[step'.peer]).msg)) =>
        /\ \A i \in step'.invoked : i.kind /= "push"
        /\ streams' = streams /\ pushed' = pushed /\ armed' = armed

(* C37: a response to a fetch request is never handed to a provisioning    *)
(* handler as pushed data and opens no push stream, also when it arrives   *)
(* after the callback entry of the fetch was removed (by the timeout, an   *)
(* error or an earlier final response) at a peer that provisions the       *)
(* resource                                                                *)
C37_FetchResponse == [][C37_NotPushed]_vars

----------------------------------------------------------------------------
(* The invocations of a provisioning handler per push                      *)

(* C38: the handler of a provisioner is invoked at most once per push, on  *)
(* its first chunk: an envelope with the id of a push whose stream was     *)
(* closed by the final envelope, by an error envelope or by the timer does *)
(* not invoke the handler again and opens no further stream (pushed holds  *)
(* one record per invocation, with the stream that was opened for it)      *)
C38_HandlerOnce ==
    \A i \in DOMAIN pushed : \A j \in DOMAIN pushed :
        (pushed[i].peer = pushed[j].peer /\ pushed[i].id = pushed[j].id) => i = j

----------------------------------------------------------------------------
(* Overlapping calls: A calls subscribe, register or provision a second    *)
(* time before the broker has acknowledged the subscribes of the first     *)
(* call, and tears the returned handles down, while C emits an event.      *)

(* subscribe, register or provision is called for a name while an earlier  *)
(* call for it still waits for the broker: the name is not in the table    *)
(* yet, so the sanity check passes and a second promise chain waits        *)
AttachOverlapping(kind, p, name) ==
    LET first  == [kind |-> kind, peer |-> p, name |-> name]
        second == [kind |-> kind, peer |-> p, name |-> name, overlapping |-> TRUE]
        w == CASE kind = "subscribe" -> subscribeStart(World, p, name)
               [] kind = "register"  -> registerStart(World, p, name)
               [] kind = "provision" -> provisionStart(World, p, name)
    IN  /\ name \notin TableOf(peers[p], kind)
        /\ first \in jobs /\ second \notin jobs
        /\ Commit([w EXCEPT !.jobs = @ \cup {second}], kind \o "Start", p, 0)

NextOverlap ==
    \/ OnlyKind("subscribe") /\ Returned("subscribe", "A", "e1") = {} /\ Subscribe("A", "e1")
    \/ OnlyKind("register") /\ Returned("register", "A", "s1") = {} /\ Register("A", "s1")
    \/ OnlyKind("provision") /\ Returned("provision", "A", "r1") = {} /\ Provision("A", "r1")
    \/ Returned("subscribe", "A", "e1") = {} /\ AttachOverlapping("subscribe", "A", "e1")
    \/ Returned("register", "A", "s1") = {} /\ AttachOverlapping("register", "A", "s1")
    \/ Returned("provision", "A", "r1") = {} /\ AttachOverlapping("provision", "A", "r1")
    \/ \E j \in jobs : Subscribed(j)
    \/ \E j \in jobs : Registered(j)
    \/ \E j \in jobs : Provisioned(j)
    \/ \E k \in DOMAIN handles : Unsubscribe(k, FALSE)
    \/ \E k \in DOMAIN handles : Unregister(k, FALSE)
    \/ \E k \in DOMAIN handles : Unprovision(k, FALSE)
    \/ \E j \in jobs : TornDown(j)
    \/ nextId <= MaxRequests /\ Emit("C", "e1", Some(<<"x">>), None)
    \/ \E c \in Clients : Deliver(c)

SpecOverlap == InitService /\ [][NextOverlap]_vars

(* the handles of the endpoint of k that were returned and not torn down *)
Live(hs, k) == {x \in DOMAIN hs : SameEndpoint(x, k) /\ ~hs[x].torn}

C39_OneLive == \A k \in DOMAIN handles : Cardinality(Live(handles, k)) <= 1

C39_Teardown ==
    (step'.act \in TeardownActs /\ step'.thrown = None) =>
        Live(handles', Get(step'.target)) = {}

(* C39: of two overlapping calls of subscribe, register or provision for   *)
(* the same name on one peer at most one succeeds: an endpoint never has   *)
(* two live handles, and the teardown of a handle leaves no live handle    *)
(* whose handler and subscriptions it has removed                          *)
C39_Overlap == []C39_OneLive /\ [][C39_Teardown]_vars

----------------------------------------------------------------------------
(* The tables of push streams and of push timers *)

(* C40: in every reachable state the push-stream table and the push-timer  *)
(* table of a peer hold the same correlation ids: every streaming push has *)
(* an armed timer and no timer is kept without its stream entry            *)
C40_Tables ==
    \A p \in Peers :
        /\ DOMAIN peers[p].pushStreams = DOMAIN peers[p].pushTimers
        /\ \A id \in DOMAIN peers[p].pushTimers :
              /\ peers[p].pushTimers[id] \in armed
              /\ peers[p].pushTimers[id].stream = peers[p].pushStreams[id]

(* a chunk of a push has opened a stream at the receiver and armed its     *)
(* timer                                                                   *)
C40_Witness ==
    /\ step.act = "deliver"
    /\ \E p \in Peers : \E id \in DOMAIN peers[p].pushStreams :
          /\ peers[p].pushTimers[id] \in armed
          /\ streams[peers[p].pushStreams[id]].data /= <<>>

====
